---- MODULE Spec2Model ----
(***************************************************************************)
(* A model of the VS_News server: the request handlers of the newsletter,  *)
(* category, admin, user and article routes acting on the document store.  *)
(* Every handler is one action; the outcome of each awaited external call   *)
(* (AI model, PDF renderer, mailer, a database write) is an input of the    *)
(* action.  The record resp describes the request served by the last step   *)
(* and the response it got.                                                 *)
(***************************************************************************)
EXTENDS Integers, Sequences, FiniteSets, TLC

\* ---------------------------------------------------------------- bounds
MaxRequests == 3

\* The minimum length of the AI's HTML that generate accepts.
MinHtmlLength == 100

\* ------------------------------------------------------------ value sets
\* An optional value is a sequence of length 0 or 1: None where JavaScript has
\* null or undefined, Some(v) otherwise.
None == <<>>
Some(v) == <<v>>
Val(o) == o[1]

ContentTypePdf == "application/pdf"
Statuses == {"Not Sent", "pending", "approved", "sent", "declined"}

VARIABLES
    env,            \* which of the environment's keys are set
    users,          \* the User collection: _id -> document
    categories,     \* the Category collection: _id -> document
    articles,       \* the CuratedArticle collection: _id -> document
    newsletters,    \* the Newsletter collection: _id -> document
    notifications,  \* the Notification collection, in creation order
    genLog,         \* per newsletter id handed out: the PDF generate answered
    issued,         \* how many user, category and article ids were handed out
    resp,           \* the last request and its response
    served,         \* the number of requests served
    now,            \* the server's clock, in days
    inflight,       \* the requests being served step by step
    client          \* the browser's AuthProvider: its state and localStorage

vars ==
    <<env, users, categories, articles, newsletters, notifications, genLog,
      issued, resp, served, now, inflight, client>>

\* ------------------------------------------------------------- helpers
Range(s) == {s[i] : i \in 1..Len(s)}

NoDup(s) == \A i, j \in 1..Len(s) : i # j => s[i] # s[j]

\* A push in place of addToSet: every value is appended.
AddToSetPush(arr, vals) == arr \o vals

\* An addToSet that moves a value the array holds to its end.
RECURSIVE AddToSetReappend(_, _)
AddToSetReappend(arr, vals) ==
    IF vals = <<>> THEN arr
    ELSE LET v == Head(vals)
         IN AddToSetReappend(
                Append(SelectSeq(arr, LAMBDA x : x # v), v), Tail(vals))

\* MongooseArray.addToSet(...vals): each value is pushed unless the array,
\* as grown so far, already holds it.
RECURSIVE AddToSet(_, _)
AddToSet(arr, vals) ==
    IF vals = <<>> THEN arr
    ELSE LET v == Head(vals)
             grown == IF v \in Range(arr) THEN arr ELSE Append(arr, v)
         IN AddToSet(grown, Tail(vals))

\* A copy that loses the last byte.
BufferFromTruncated(bytes) == [i \in 1..(Len(bytes) - 1) |-> bytes[i]]

\* Buffer.from(buffer): a fresh buffer holding a copy of the bytes.
BufferFrom(bytes) == [i \in 1..Len(bytes) |-> bytes[i]]

\* buffer.toString('base64'), kept symbolic: the encoding of these bytes.
Base64(bytes) == <<"base64", bytes>>

\* Newsletter.findById: the collection maps the ids of the stored documents
\* to the documents.
FindNewsletter(nid) ==
    IF nid \in DOMAIN newsletters THEN Some(newsletters[nid]) ELSE None

\* User.findById
FindUser(uid) == IF uid \in DOMAIN users THEN Some(users[uid]) ELSE None

\* User.find({ _id: { $in: userIds } }).select('email'), then map(r => r.email)
RecipientEmails(userIds) ==
    {users[u].email : u \in Range(userIds) \cap DOMAIN users}

\* What the last request was and what it answered: the route, the request as
\* the handler received it (with the awaited call that fails while serving
\* it, if that call is reached), the target document as the handler loaded
\* it, the status code, the message handed to the mailer while serving it (if
\* any) and the response body (where the model keeps it).
Response(op, req, pre, code, mail, body) ==
    [op |-> op, req |-> req, pre |-> pre, code |-> code, mail |-> mail,
     body |-> body]

\* ------------------------------------------------- POST /newsletters/:id/send
\* Only a missing list counts as no recipients.
NoRecipientsMissingOnly(body) == body = None

\* !userIds || userIds.length === 0
NoRecipients(body) == body = None \/ Len(Val(body)) = 0

\* The mailer is called whatever the environment holds.
EmailAttemptedAlways(userIds) == RecipientEmails(userIds) # {}

\* The mailer is called when SENDGRID_API_KEY is set and at least one of the
\* ids is the id of a user.
EmailAttempted(userIds) == env.sendgrid /\ RecipientEmails(userIds) # {}

\* A rejected mailer call is swallowed.
SendAbortsOnSaveOnly(emailFails, fault) == fault = "save"

\* The handler leaves through its outer catch, before anything is saved, when
\* the mailer or newsletter.save() rejects.
SendAborts(emailFails, fault) == emailFails \/ fault = "save"

\* A rejected Notification.insertMany reaches the outer catch.
SendCodeStrict(aborted, fault) ==
    IF aborted \/ fault = "notify" THEN 500 ELSE 200

\* A rejected Notification.insertMany is caught and logged: the handler goes
\* on to answer 200.
SendCode(aborted, fault) == IF aborted THEN 500 ELSE 200

ReceivedMessage(title) == [kind |-> "received", title |-> title]

SendNotifications(nid, title, userIds) ==
    [i \in 1..Len(userIds) |->
        [user |-> userIds[i], newsletter |-> nid,
         message |-> ReceivedMessage(title), isRead |-> FALSE]]

\* The sub-sequences of docs an unordered insertMany that rejects may have
\* written: any of them but the whole batch.
RECURSIVE SubSeqs(_)
SubSeqs(s) ==
    IF s = <<>> THEN {<<>>}
    ELSE LET rest == SubSeqs(Tail(s))
         IN rest \cup {<<Head(s)>> \o r : r \in rest}

PartialInserts(docs) == SubSeqs(docs) \ {docs}

SendMail(newsletter, to) ==
    [to |-> to, title |-> newsletter.title,
     attachment |-> Base64(Val(newsletter.pdfContent).data),
     type |-> ContentTypePdf]

Send(nid, body, fault) ==
    LET found == FindNewsletter(nid)
        R(code, mail) ==
            Response("send", [nid |-> nid, userIds |-> body, fault |-> fault],
                     found, code, mail, None)
        same == UNCHANGED <<env, users, categories, articles, newsletters,
                            notifications, genLog, issued>>
    IN
    IF NoRecipients(body) THEN
        resp' = R(400, None) /\ same
    ELSE IF found = None THEN
        resp' = R(404, None) /\ same
    ELSE
        LET userIds == Val(body)
            newsletter == Val(found)
            attempted == EmailAttempted(userIds)
            emailFails == attempted /\ fault = "email"
            mail == IF attempted /\ ~emailFails
                    THEN Some(SendMail(newsletter, RecipientEmails(userIds)))
                    ELSE None
            aborted == SendAborts(emailFails, fault)
            saved == [newsletter EXCEPT
                        !.status = "sent",
                        !.recipients = AddToSet(@, userIds)]
            docs == SendNotifications(nid, newsletter.title, userIds)
        IN
        IF aborted THEN
            resp' = R(SendCode(aborted, fault), mail) /\ same
        ELSE
            /\ newsletters' = [newsletters EXCEPT ![nid] = saved]
            /\ \E inserted \in
                   (IF fault = "notify" THEN PartialInserts(docs) ELSE {docs}) :
                   notifications' = notifications \o inserted
            /\ resp' = R(SendCode(aborted, fault), mail)
            /\ UNCHANGED <<env, users, categories, articles, genLog, issued>>

\* --------------------------------------- POST /newsletters/generate-and-save
\* Only an absent field counts as unset.
FalsyUndefinedOnly(o) == o = None

\* !x for a string field of the body: undefined, or the empty string.
Falsy(o) == o = None \/ Val(o) = ""

\* !articles || articles.length === 0 || !title || !category
MissingFields(body) ==
    \/ body.articles = None \/ Len(Val(body.articles)) = 0
    \/ Falsy(body.title) \/ Falsy(body.category)

FenceOpenLen == 8     \* the characters of "```html\n"
FenceCloseLen == 4    \* the characters of "\n```"

\* The length of result.response.text() with the leading and trailing code
\* fence, where present, replaced by nothing.
StrippedLength(ai) ==
    ai.rawLen - (IF ai.fenceOpen THEN FenceOpenLen ELSE 0)
              - (IF ai.fenceClose THEN FenceCloseLen ELSE 0)

\* Only an empty answer is turned down.
HtmlRejectedWhenEmpty(ai) == StrippedLength(ai) = 0

HtmlRejected(ai) == StrippedLength(ai) = 0 \/ StrippedLength(ai) < MinHtmlLength

\* articles.map(a => a._id)
ArticleRefs(selected) == [i \in 1..Len(selected) |-> selected[i]._id]

GeneratedMessage(title) == [kind |-> "generated", title |-> title]

\* A newsletter created with the status of a draft.
NewNewsletterDraft(body, pdfBuffer) ==
    [title |-> Val(body.title),
     category |-> Val(body.category),
     articles |-> ArticleRefs(Val(body.articles)),
     status |-> "draft",
     recipients |-> <<>>,
     pdfContent |-> Some([data |-> BufferFrom(pdfBuffer),
                          contentType |-> ContentTypePdf])]

NewNewsletter(body, pdfBuffer) ==
    [title |-> Val(body.title),
     category |-> Val(body.category),
     articles |-> ArticleRefs(Val(body.articles)),
     status |-> "Not Sent",
     recipients |-> <<>>,
     pdfContent |-> Some([data |-> BufferFrom(pdfBuffer),
                          contentType |-> ContentTypePdf])]

\* A failed notification save takes the newsletter out again.
SavedNewsletterUndone(nid, doc, fault) ==
    IF fault = "notify" THEN newsletters ELSE (nid :> doc) @@ newsletters

\* The Newsletter collection once newNewsletter.save() has resolved: nothing
\* the handler does later, whatever its outcome, touches it.
SavedNewsletter(nid, doc, fault) == (nid :> doc) @@ newsletters

\* The id the store gives the next newsletter: ids are never reused.  genLog
\* keeps, for every id handed out, the PDF generate answered with (None when
\* generate failed after saving the newsletter).
NextNewsletterId == Cardinality(DOMAIN genLog) + 1

Generate(caller, body, ai, pdf, fault) ==
    LET R(code, out) ==
            Response("generate",
                     [caller |-> caller, body |-> body, ai |-> ai, pdf |-> pdf,
                      fault |-> fault],
                     None, code, None, out)
        same == UNCHANGED <<env, users, categories, articles, newsletters,
                            notifications, genLog, issued>>
    IN
    IF ~env.gemini THEN
        resp' = R(500, None) /\ same
    ELSE IF MissingFields(body) THEN
        resp' = R(400, None) /\ same
    ELSE IF ai.throws \/ HtmlRejected(ai) \/ pdf = None \/ fault = "save" THEN
        resp' = R(500, None) /\ same
    ELSE
        LET nid == NextNewsletterId
            pdfBuffer == Val(pdf)
            doc == NewNewsletter(body, pdfBuffer)
            notification ==
                [user |-> caller, newsletter |-> nid,
                 message |-> GeneratedMessage(doc.title), isRead |-> FALSE]
        IN
        /\ newsletters' = SavedNewsletter(nid, doc, fault)
        /\ IF fault = "notify" THEN
              /\ notifications' = notifications
              /\ genLog' = (nid :> None) @@ genLog
              /\ resp' = R(500, None)
           ELSE
              /\ notifications' = Append(notifications, notification)
              /\ genLog' = (nid :> Some(pdfBuffer)) @@ genLog
              /\ resp' = R(200, Some([data |-> pdfBuffer,
                                      contentType |-> ContentTypePdf]))
        /\ UNCHANGED <<env, users, categories, articles, issued>>

\* ------------------------------------------- GET /newsletters/:id/download
HasPdf(found) == found # None /\ Val(found).pdfContent # None

Download(nid) ==
    LET found == FindNewsletter(nid)
        R(code, out) ==
            Response("download", [nid |-> nid], found, code, None, out)
    IN
    /\ resp' = IF ~HasPdf(found) THEN R(404, None)
               ELSE R(200, Some(Val(Val(found).pdfContent)))
    /\ UNCHANGED <<env, users, categories, articles, newsletters,
                   notifications, genLog, issued>>

\* -------------------------------------------- PATCH /newsletters/:id/status
\* A route that refuses to take a newsletter out of the status 'sent'.
PatchStatusGuarded(nid, status) ==
    LET found == FindNewsletter(nid)
        refused == found # None /\ Val(found).status = "sent"
        updated == IF found = None \/ refused THEN None
                   ELSE Some([Val(found) EXCEPT !.status = status])
    IN
    /\ newsletters' = IF updated = None THEN newsletters
                      ELSE [newsletters EXCEPT ![nid] = Val(updated)]
    /\ resp' = Response("status", [nid |-> nid, status |-> status], found,
                        IF refused THEN 400 ELSE 200, None, updated)
    /\ UNCHANGED <<env, users, categories, articles, notifications, genLog,
                   issued>>

\* findByIdAndUpdate(id, { status }, { new: true }): no validator runs, the
\* answer is the updated document, or null when there is none.
PatchStatus(nid, status) ==
    LET found == FindNewsletter(nid)
        updated == IF found = None THEN None
                   ELSE Some([Val(found) EXCEPT !.status = status])
    IN
    /\ newsletters' = IF found = None THEN newsletters
                      ELSE [newsletters EXCEPT ![nid] = Val(updated)]
    /\ resp' = Response("status", [nid |-> nid, status |-> status], found,
                        200, None, updated)
    /\ UNCHANGED <<env, users, categories, articles, notifications, genLog,
                 issued>>

\* --------------------------------------------------- DELETE /newsletters/:id
\* A delete that takes the newsletter's notifications with it.
DeleteNewsletterCascade(nid) ==
    LET found == FindNewsletter(nid)
    IN
    /\ newsletters' = [n \in DOMAIN newsletters \ {nid} |-> newsletters[n]]
    /\ notifications' = SelectSeq(notifications, LAMBDA d : d.newsletter # nid)
    /\ resp' = Response("delete", [nid |-> nid], found,
                        IF found = None THEN 404 ELSE 200, None, None)
    /\ UNCHANGED <<env, users, categories, articles, genLog, issued>>

DeleteNewsletter(nid) ==
    LET found == FindNewsletter(nid)
    IN
    /\ newsletters' = [n \in DOMAIN newsletters \ {nid} |-> newsletters[n]]
    /\ resp' = Response("delete", [nid |-> nid], found,
                        IF found = None THEN 404 ELSE 200, None, None)
    /\ UNCHANGED <<env, users, categories, articles, notifications, genLog,
                 issued>>

\* ------------------------------------------ POST /users/send-newsletter-to-self
SelfSentMessage(title) == [kind |-> "selfsent", title |-> title]

\* A message addressed to every user.
SelfMailToAll(user, newsletter) ==
    [to |-> {users[u].email : u \in DOMAIN users},
     title |-> newsletter.title,
     attachment |-> Base64(Val(newsletter.pdfContent).data),
     type |-> ContentTypePdf]

\* msg: to: user.email, one attachment with the PDF in base64
SelfMail(user, newsletter) ==
    [to |-> {user.email},
     title |-> newsletter.title,
     attachment |-> Base64(Val(newsletter.pdfContent).data),
     type |-> ContentTypePdf]

\* A save that marks the newsletter as sent too.
SelfSavedAsSent(newsletter, caller) ==
    [newsletter EXCEPT !.status = "sent",
                       !.recipients = AddToSet(@, <<caller>>)]

\* newsletter.recipients.addToSet(user._id), then newsletter.save()
SelfSaved(newsletter, caller) ==
    [newsletter EXCEPT !.recipients = AddToSet(@, <<caller>>)]

SelfSend(caller, newsletterId, fault) ==
    LET found == IF newsletterId = None THEN None
                 ELSE FindNewsletter(Val(newsletterId))
        user == FindUser(caller)
        R(code, mail) ==
            Response("selfsend",
                     [caller |-> caller, newsletterId |-> newsletterId,
                      fault |-> fault],
                     found, code, mail, None)
        same == UNCHANGED <<env, users, categories, articles, newsletters,
                            notifications, genLog, issued>>
    IN
    IF ~env.sendgrid \/ ~env.fromEmail THEN
        resp' = R(500, None) /\ same
    ELSE IF newsletterId = None THEN
        resp' = R(400, None) /\ same
    ELSE IF user = None THEN
        resp' = R(404, None) /\ same
    ELSE IF ~HasPdf(found) THEN
        resp' = R(404, None) /\ same
    ELSE IF fault = "email" THEN
        resp' = R(500, None) /\ same
    ELSE
        LET newsletter == Val(found)
            nid == Val(newsletterId)
            mail == Some(SelfMail(Val(user), newsletter))
            saved == SelfSaved(newsletter, caller)
            notification ==
                [user |-> caller, newsletter |-> nid,
                 message |-> SelfSentMessage(newsletter.title),
                 isRead |-> FALSE]
        IN
        IF fault = "save" THEN
            resp' = R(500, mail) /\ same
        ELSE
            /\ newsletters' = [newsletters EXCEPT ![nid] = saved]
            /\ IF fault = "notify" THEN
                  notifications' = notifications /\ resp' = R(500, mail)
               ELSE
                  /\ notifications' = Append(notifications, notification)
                  /\ resp' = R(200, mail)
            /\ UNCHANGED <<env, users, categories, articles, genLog, issued>>

\* ------------------------------------------ POST /notifications/mark-as-read
\* Every unread notification becomes read, whoever its user is.
MarkReadOfAll(list, caller) ==
    [i \in 1..Len(list) |-> [list[i] EXCEPT !.isRead = TRUE]]

\* updateMany({ user: req.user, isRead: false }, { $set: { isRead: true } })
MarkRead(list, caller) ==
    [i \in 1..Len(list) |->
        IF list[i].user = caller /\ ~list[i].isRead
        THEN [list[i] EXCEPT !.isRead = TRUE]
        ELSE list[i]]

\* fault = "update": updateMany rejects.
MarkAsRead(caller, fault) ==
    /\ notifications' = IF fault = "update" THEN notifications
                        ELSE MarkRead(notifications, caller)
    /\ resp' = Response("markread", [caller |-> caller, fault |-> fault],
                        None, IF fault = "update" THEN 500 ELSE 200, None,
                        None)
    /\ UNCHANGED <<env, users, categories, articles, newsletters, genLog,
                   issued>>

\* ------------------------------------------------------- the id sequences
\* The ids the store hands out to users and categories, in order.
UserIdPool == <<"u1", "u2", "u3", "u4", "u5", "u6", "u7">>
CategoryIdPool == <<"k1", "k2", "k3", "k4", "k5", "k6", "k7">>

\* $pull: every occurrence of v leaves the array.
Pull(arr, v) == SelectSeq(arr, LAMBDA x : x # v)

\* arr.filter(c => !other.includes(c))
Without(arr, other) == SelectSeq(arr, LAMBDA x : x \notin Range(other))

\* ----------------------------------------------------------- POST /categories
CreateCategory(name) ==
    LET cid == CategoryIdPool[issued.categories + 1]
        taken == \E c \in DOMAIN categories : categories[c].name = Val(name)
        doc == [name |-> Val(name), admins |-> <<>>]
        R(code, out) ==
            Response("createCategory", [name |-> name], None, code, None, out)
    IN
    IF Falsy(name) \/ taken THEN
        /\ resp' = R(400, None)
        /\ UNCHANGED <<env, users, categories, articles, newsletters,
                       notifications, genLog, issued>>
    ELSE
        /\ categories' = (cid :> doc) @@ categories
        /\ issued' = [issued EXCEPT !.categories = @ + 1]
        /\ resp' = R(201, Some(doc))
        /\ UNCHANGED <<env, users, articles, newsletters, notifications,
                       genLog>>

\* ------------------------------------------------------ DELETE /categories/:id
\* User.updateMany({ _id: { $in: admins } }, { $pull: { categories: name } })
PullCategoryFromAdmins(admins, name) ==
    [u \in DOMAIN users |->
        IF u \in Range(admins)
        THEN [users[u] EXCEPT !.categories = Pull(@, name)]
        ELSE users[u]]

DeleteCategory(cid) ==
    LET found == IF cid \in DOMAIN categories THEN Some(categories[cid])
                 ELSE None
        R(code) == Response("deleteCategory", [cid |-> cid], found, code,
                            None, None)
    IN
    IF found = None THEN
        /\ resp' = R(404)
        /\ UNCHANGED <<env, users, categories, articles, newsletters,
                       notifications, genLog, issued>>
    ELSE
        /\ users' = PullCategoryFromAdmins(Val(found).admins, Val(found).name)
        /\ categories' = [c \in DOMAIN categories \ {cid} |-> categories[c]]
        /\ resp' = R(200)
        /\ UNCHANGED <<env, articles, newsletters, notifications, genLog,
                       issued>>

\* ---------------------------------------------------------------- POST /admins
\* An updateMany that changes no category.
AddAdminToNoCategory(cats, names, id) == cats

\* Category.updateMany({ name: { $in: names } }, { $addToSet: { admins: id } })
AddAdminToCategories(cats, names, id) ==
    [c \in DOMAIN cats |->
        IF cats[c].name \in Range(names)
        THEN [cats[c] EXCEPT !.admins = AddToSet(@, <<id>>)]
        ELSE cats[c]]

\* Category.updateMany({ name: { $in: names } }, { $pull: { admins: id } })
PullAdminFromCategories(cats, names, id) ==
    [c \in DOMAIN cats |->
        IF cats[c].name \in Range(names)
        THEN [cats[c] EXCEPT !.admins = Pull(@, id)]
        ELSE cats[c]]

\* The email field of the User schema has trim: true: the setter takes the
\* white space off both ends of a value, both where a document is built and
\* where a query on email is cast.  " e1" and " e4" are the padded values of
\* the requests.
Trim(email) ==
    IF email = " e1" THEN "e1" ELSE IF email = " e4" THEN "e4" ELSE email

\* User.findOne({ email }) finds a document.
EmailTaken(email) == \E u \in DOMAIN users : users[u].email = Trim(email)

CreateAdmin(name, email, password, cats) ==
    LET id == UserIdPool[issued.users + 1]
        doc == [name |-> Val(name), email |-> Trim(Val(email)),
                userType |-> "admin", categories |-> cats]
        R(code, out) ==
            Response("createAdmin",
                     [name |-> name, email |-> email, password |-> password,
                      categories |-> cats],
                     None, code, None, out)
    IN
    IF Falsy(name) \/ Falsy(email) \/ Falsy(password)
       \/ EmailTaken(Val(email)) THEN
        /\ resp' = R(400, None)
        /\ UNCHANGED <<env, users, categories, articles, newsletters,
                       notifications, genLog, issued>>
    ELSE
        /\ users' = (id :> doc) @@ users
        /\ issued' = [issued EXCEPT !.users = @ + 1]
        /\ categories' = IF Len(cats) > 0
                         THEN AddAdminToCategories(categories, cats, id)
                         ELSE categories
        /\ resp' = R(201, Some(doc))
        /\ UNCHANGED <<env, articles, newsletters, notifications, genLog>>

\* ----------------------------------------------------------- PATCH /admins/:id
\* Saving a document whose email another document holds breaks the unique
\* index: save() rejects.
EmailClash(id, email) ==
    \E u \in DOMAIN users \ {id} : users[u].email = Trim(email)

UpdateAdmin(adminId, name, email, newCategories) ==
    LET found == FindUser(adminId)
        R(code, out) ==
            Response("updateAdmin",
                     [id |-> adminId, name |-> name, email |-> email,
                      categories |-> newCategories],
                     found, code, None, out)
        same == UNCHANGED <<env, users, categories, articles, newsletters,
                            notifications, genLog, issued>>
    IN
    IF found = None THEN
        resp' = R(404, None) /\ same
    ELSE IF Falsy(name) \/ Falsy(email) \/ EmailClash(adminId, Val(email)) THEN
        \* a required field is unset, or the unique index rejects the save
        resp' = R(500, None) /\ same
    ELSE
        LET oldCategories == Val(found).categories
            doc == [Val(found) EXCEPT !.name = Val(name),
                                      !.email = Trim(Val(email)),
                                      !.categories = newCategories]
            added == Without(newCategories, oldCategories)
            removed == Without(oldCategories, newCategories)
            afterAdd == IF Len(added) > 0
                        THEN AddAdminToCategories(categories, added, adminId)
                        ELSE categories
        IN
        /\ users' = [users EXCEPT ![adminId] = doc]
        /\ categories' = IF Len(removed) > 0
                         THEN PullAdminFromCategories(afterAdd, removed,
                                                      adminId)
                         ELSE afterAdd
        /\ resp' = R(200, Some(doc))
        /\ UNCHANGED <<env, articles, newsletters, notifications, genLog,
                       issued>>

\* ---------------------------------------------------------- DELETE /admins/:id
\* Category.updateMany({ admins: id }, { $pull: { admins: id } })
PullAdminEverywhere(cats, id) ==
    [c \in DOMAIN cats |-> [cats[c] EXCEPT !.admins = Pull(@, id)]]

DeleteAdmin(adminId) ==
    LET found == FindUser(adminId)
        R(code) == Response("deleteAdmin", [id |-> adminId], found, code,
                            None, None)
        same == UNCHANGED <<env, users, categories, articles, newsletters,
                            notifications, genLog, issued>>
    IN
    IF found = None THEN
        resp' = R(404) /\ same
    ELSE IF Val(found).userType = "superadmin" THEN
        resp' = R(403) /\ same
    ELSE
        /\ categories' = PullAdminEverywhere(categories, adminId)
        /\ users' = [u \in DOMAIN users \ {adminId} |-> users[u]]
        /\ resp' = R(200)
        /\ UNCHANGED <<env, articles, newsletters, notifications, genLog,
                       issued>>

\* ------------------------------------------------- PATCH /users/me/categories
UpdateMyCategories(caller, cats) ==
    LET found == FindUser(caller)
        updated == IF found = None THEN None
                   ELSE Some([Val(found) EXCEPT !.categories = cats])
    IN
    /\ users' = IF found = None THEN users
                ELSE [users EXCEPT ![caller] = Val(updated)]
    /\ resp' = Response("myCategories", [caller |-> caller, categories |-> cats],
                        found, 200, None, updated)
    /\ UNCHANGED <<env, categories, articles, newsletters, notifications,
                   genLog, issued>>

\* -------------------------------------------------------------- POST /articles
\* { ...article, originalUrl: article.url, category: admin.categories[0] ||
\* 'General', savedBy: req.user }: the keys written after the spread replace
\* those the client sent.
PreparedArticle(item, admin, caller) ==
    [originalUrl |-> item.url,
     category |-> IF Len(admin.categories) > 0 THEN admin.categories[1]
                  ELSE "General",
     savedBy |-> caller]

PreparedArticles(items, admin, caller) ==
    [i \in 1..Len(items) |-> PreparedArticle(items[i], admin, caller)]

\* An ordered insert: nothing after the first rejected document is written.
RECURSIVE KeptUntilRejected(_, _)
KeptUntilRejected(docs, rejected) ==
    IF docs = <<>> \/ 1 \in rejected THEN <<>>
    ELSE <<Head(docs)>>
         \o KeptUntilRejected(Tail(docs), {i - 1 : i \in rejected})

\* insertMany(docs, { ordered: false }): every document the store does not
\* reject is written, in order.
RECURSIVE Kept(_, _)
Kept(docs, rejected) ==
    IF docs = <<>> THEN <<>>
    ELSE (IF 1 \in rejected THEN <<>> ELSE <<Head(docs)>>)
         \o Kept(Tail(docs), {i - 1 : i \in rejected})

\* The createdAt of a document: the time at which it is saved.
InsertTime == now

\* Each stored document gets the next id and its createdAt.
InsertArticles(docs) ==
    [a \in (DOMAIN articles)
           \cup ((issued.articles + 1)..(issued.articles + Len(docs))) |->
        IF a \in DOMAIN articles THEN articles[a]
        ELSE [originalUrl |-> docs[a - issued.articles].originalUrl,
              category |-> docs[a - issued.articles].category,
              savedBy |-> docs[a - issued.articles].savedBy,
              createdAt |-> InsertTime]]

\* !articles || !Array.isArray(articles) || articles.length === 0
NoArticles(body) ==
    body = None \/ ~Val(body).isArray \/ Len(Val(body).items) = 0

\* rejected: the positions of the documents the store rejects with a
\* duplicate-key error.  article.source.name throws for an article without
\* source.
SaveArticles(caller, body, rejected) ==
    LET admin == FindUser(caller)
        R(code) == Response("saveArticles",
                            [caller |-> caller, articles |-> body,
                             rejected |-> rejected],
                            None, code, None, None)
        same == UNCHANGED <<env, users, categories, articles, newsletters,
                            notifications, genLog, issued>>
    IN
    IF NoArticles(body) THEN
        resp' = R(400) /\ same
    ELSE IF admin = None THEN
        resp' = R(404) /\ same
    ELSE IF \E i \in 1..Len(Val(body).items) : ~Val(body).items[i].hasSource
    THEN
        resp' = R(500) /\ same
    ELSE
        LET docs == PreparedArticles(Val(body).items, Val(admin), caller)
            inserted == Kept(docs, rejected)
        IN
        /\ articles' = InsertArticles(inserted)
        /\ issued' = [issued EXCEPT !.articles = @ + Len(inserted)]
        /\ resp' = R(IF rejected # {} THEN 200 ELSE 201)
        /\ UNCHANGED <<env, users, categories, newsletters, notifications,
                       genLog>>

\* ---------------------------------------------------------------- GET /articles
SubDays(date, days) == date - days

\* subMonths(now, 1): the same day of the month before, monthLength days back.
SubMonths(date, monthLength) == date - monthLength

\* startDate: set for the timeframes 'day', 'week' and 'month' only.
StartDate(timeframe, monthLength) ==
    IF timeframe = Some("day") THEN Some(SubDays(now, 1))
    ELSE IF timeframe = Some("week") THEN Some(SubDays(now, 7))
    ELSE IF timeframe = Some("month") THEN Some(SubMonths(now, monthLength))
    ELSE None

\* A query that leaves the owner out.
MatchesAnyOwner(article, caller, startDate) ==
    startDate = None \/ article.createdAt >= Val(startDate)

\* query = { savedBy: req.user, createdAt: { $gte: startDate } }, the second
\* part only where startDate is set
Matches(article, caller, startDate) ==
    /\ article.savedBy = caller
    /\ startDate = None \/ article.createdAt >= Val(startDate)

\* The orders .sort({ createdAt: -1 }) may give the documents of found: a
\* newest one first, then the others in such an order.
RECURSIVE SortedByCreatedAt(_)
SortedByCreatedAt(found) ==
    IF found = {} THEN {<<>>}
    ELSE UNION {{<<a>> \o rest : rest \in SortedByCreatedAt(found \ {a})} :
                a \in {x \in found :
                         \A y \in found :
                             articles[x].createdAt >= articles[y].createdAt}}

ListArticles(caller, timeframe, monthLength) ==
    LET startDate == StartDate(timeframe, monthLength)
        found == {a \in DOMAIN articles :
                     Matches(articles[a], caller, startDate)}
    IN
    /\ \E order \in SortedByCreatedAt(found) :
          resp' = Response("listArticles",
                           [caller |-> caller, timeframe |-> timeframe,
                            monthLength |-> monthLength],
                           None, 200, None, Some(order))
    /\ UNCHANGED <<env, users, categories, articles, newsletters,
                   notifications, genLog, issued>>

\* ------------------------------------------------------- DELETE /articles/:id
\* A lookup by id alone.
FindAnyArticle(aid, caller) ==
    IF aid \in DOMAIN articles THEN Some(articles[aid]) ELSE None

\* findOneAndDelete({ _id: id, savedBy: req.user }): the document the filter
\* selects, if there is one.
FindOwnArticle(aid, caller) ==
    IF aid \in DOMAIN articles /\ articles[aid].savedBy = caller
    THEN Some(articles[aid]) ELSE None

\* resp.pre is the stored article of that id, whoever saved it.
DeleteArticle(caller, aid) ==
    LET article == FindOwnArticle(aid, caller)
        stored == IF aid \in DOMAIN articles THEN Some(articles[aid]) ELSE None
        R(code) == Response("deleteArticle", [caller |-> caller, aid |-> aid],
                            stored, code, None, None)
    IN
    IF article = None THEN
        /\ resp' = R(404)
        /\ UNCHANGED <<env, users, categories, articles, newsletters,
                       notifications, genLog, issued>>
    ELSE
        /\ articles' = [a \in DOMAIN articles \ {aid} |-> articles[a]]
        /\ resp' = R(200)
        /\ UNCHANGED <<env, users, categories, newsletters, notifications,
                       genLog, issued>>

\* ------------------------------------------------------------ the system
\* The users of the newsletter routes: u1, an admin; u2, a subscriber; and
\* u3, an id no User document has.
NewsUsers ==
    [u \in {"u1", "u2"} |->
        [name |-> u, email |-> IF u = "u1" THEN "e1" ELSE "e2",
         userType |-> IF u = "u1" THEN "admin" ELSE "user",
         categories |-> <<"c1">>]]

\* GEMINI_API_KEY, SENDGRID_API_KEY and FROM_EMAIL, each set or not.  FROM_EMAIL
\* is read only where SENDGRID_API_KEY is set, so it varies only there.
Envs ==
    {e \in [gemini : BOOLEAN, sendgrid : BOOLEAN, fromEmail : BOOLEAN] :
        (~e.gemini => ~e.sendgrid) /\ (~e.sendgrid => ~e.fromEmail)}

Init ==
    /\ env \in Envs
    /\ users = NewsUsers
    /\ categories = <<>>
    /\ articles = <<>>
    /\ issued = [users |-> 2, categories |-> 0, articles |-> 0]
    /\ newsletters = <<>>
    /\ notifications = <<>>
    /\ genLog = <<>>
    /\ resp = Response("init", <<>>, None, 0, None, None)
    /\ served = 0
    /\ now = 0
    /\ inflight = <<>>
    /\ client = <<>>

\* The newsletter ids of the requests: every id the store has handed out, and
\* one it has not.
NewsletterIds == 1..NextNewsletterId

\* The userIds of the send requests: missing, empty, one id, two ids in
\* either order, and one id twice.
UserIdBodies ==
    {None, Some(<<>>), Some(<<"u2">>), Some(<<"u3">>), Some(<<"u2", "u3">>),
     Some(<<"u3", "u2">>), Some(<<"u2", "u2">>)}

SendFaults == {"none", "email", "save", "notify"}

PdfA == <<37, 80>>
PdfB == <<37, 80, 68>>

\* A curated article as the dashboard submits it.
Selected(id) == [_id |-> id, title |-> <<"title of", id>>]

GoodBody == [articles |-> Some(<<Selected("a1"), Selected("a2")>>),
             title |-> Some("T1"), category |-> Some("c1")]

BadBodies ==
    {[GoodBody EXCEPT !.articles = None],
     [GoodBody EXCEPT !.articles = Some(<<>>)],
     [GoodBody EXCEPT !.title = None],
     [GoodBody EXCEPT !.title = Some("")],
     [GoodBody EXCEPT !.category = None]}

Html(throws, fenced, rawLen) ==
    [throws |-> throws, fenceOpen |-> fenced, fenceClose |-> fenced,
     rawLen |-> rawLen]

GoodHtml == Html(FALSE, FALSE, 100)

BadHtmls ==
    {Html(TRUE, FALSE, 0), Html(FALSE, FALSE, 0), Html(FALSE, FALSE, 99),
     Html(FALSE, TRUE, 111)}

\* The generate requests: a good one with either PDF and each database
\* outcome, and one per way of failing before anything is saved.
GenerateCases ==
    ({GoodBody} \X {GoodHtml, Html(FALSE, TRUE, 112)} \X {Some(PdfA), Some(PdfB)}
        \X {"none", "save", "notify"})
    \cup (BadBodies \X {GoodHtml} \X {Some(PdfA)} \X {"none"})
    \cup ({GoodBody} \X BadHtmls \X {Some(PdfA)} \X {"none"})
    \cup ({GoodBody} \X {GoodHtml} \X {None} \X {"none"})

Handle ==
    \/ \E nid \in NewsletterIds, body \in UserIdBodies, fault \in SendFaults :
           Send(nid, body, fault)
    \/ \E c \in GenerateCases : Generate("u1", c[1], c[2], c[3], c[4])
    \/ \E nid \in NewsletterIds : Download(nid)
    \/ \E nid \in NewsletterIds, status \in Statuses : PatchStatus(nid, status)
    \/ \E nid \in NewsletterIds : DeleteNewsletter(nid)
    \/ \E caller \in {"u2", "u3"},
          newsletterId \in {None} \cup {Some(n) : n \in NewsletterIds},
          fault \in SendFaults :
           SelfSend(caller, newsletterId, fault)
    \/ \E caller \in {"u1", "u2", "u3"}, fault \in {"none", "update"} :
           MarkAsRead(caller, fault)

Next ==
    /\ served < MaxRequests
    /\ Handle
    /\ served' = served + 1
    /\ UNCHANGED <<now, inflight, client>>

Spec == Init /\ [][Next]_vars

\* --------------------------------------------- the category and admin routes
MaxAdminRequests == 4

FullEnv == [gemini |-> TRUE, sendgrid |-> TRUE, fromEmail |-> TRUE]

\* u1, the superadmin, and u2, an admin of no category yet.
AdminUsers ==
    [u \in {"u1", "u2"} |->
        [name |-> u, email |-> IF u = "u1" THEN "e1" ELSE "e2",
         userType |-> IF u = "u1" THEN "superadmin" ELSE "admin",
         categories |-> <<>>]]

InitAdmin ==
    /\ env = FullEnv
    /\ users = AdminUsers
    /\ categories = <<>>
    /\ articles = <<>>
    /\ issued = [users |-> 2, categories |-> 0, articles |-> 0]
    /\ newsletters = <<>>
    /\ notifications = <<>>
    /\ genLog = <<>>
    /\ resp = Response("init", <<>>, None, 0, None, None)
    /\ served = 0
    /\ now = 0
    /\ inflight = <<>>
    /\ client = <<>>

\* Every user id handed out so far, and the next one.
UserIds == {UserIdPool[i] : i \in 1..(issued.users + 1)}
CategoryIds == {CategoryIdPool[i] : i \in 1..(issued.categories + 1)}

CategoryNames == {None, Some("c1"), Some("c2")}
CategoryLists == {<<>>, <<"c1">>, <<"c2">>, <<"c1", "c2">>}

\* The bodies of POST /admins: one with a field missing, one with a taken
\* email, and new admins.
AdminBodies ==
    {<<None, Some("e3"), Some("pw")>>, <<Some("n"), Some("e1"), Some("pw")>>,
     <<Some("n"), Some("e3"), Some("pw")>>}

\* The name and email of PATCH /admins/:id: unchanged email, another's email,
\* a missing name.
AdminPatches ==
    {<<Some("m"), Some("e2")>>, <<Some("m"), Some("e1")>>, <<None, Some("e2")>>}

HandleAdmin ==
    \/ \E name \in CategoryNames : CreateCategory(name)
    \/ \E cid \in CategoryIds : DeleteCategory(cid)
    \/ \E b \in AdminBodies, cats \in CategoryLists :
           CreateAdmin(b[1], b[2], b[3], cats)
    \/ \E id \in UserIds \ {"u1"}, b \in AdminPatches, cats \in CategoryLists :
           UpdateAdmin(id, b[1], b[2], cats)
    \/ \E id \in UserIds : DeleteAdmin(id)
    \/ \E caller \in (DOMAIN users) \ {"u1"}, cats \in CategoryLists :
           UpdateMyCategories(caller, cats)

NextAdmin ==
    /\ served < MaxAdminRequests
    /\ HandleAdmin
    /\ served' = served + 1
    /\ UNCHANGED <<now, inflight, client>>

SpecAdmin == InitAdmin /\ [][NextAdmin]_vars

\* ---------------------------------------------------------- the article routes
\* The requests and advances of the clock in a run of the article routes.
MaxArticleSteps == 4

\* POST /articles with articles is served while fewer articles than this
\* were ever stored.
MaxArticles == 3

\* u1 curates category c1, u2 curates nothing yet, and u3 is an id no User
\* document has.
ArticleUsers ==
    [u \in {"u1", "u2"} |->
        [name |-> u, email |-> IF u = "u1" THEN "e1" ELSE "e2",
         userType |-> "admin",
         categories |-> IF u = "u1" THEN <<"c1">> ELSE <<>>]]

\* The collection holds one article, which u2 saved at day 0.
InitArticles ==
    /\ env = FullEnv
    /\ users = ArticleUsers
    /\ categories = <<>>
    /\ articles = (1 :> [originalUrl |-> "y", category |-> "General",
                         savedBy |-> "u2", createdAt |-> 0])
    /\ issued = [users |-> 2, categories |-> 0, articles |-> 1]
    /\ newsletters = <<>>
    /\ notifications = <<>>
    /\ genLog = <<>>
    /\ resp = Response("init", <<>>, None, 0, None, None)
    /\ served = 0
    /\ now = 0
    /\ inflight = <<>>
    /\ client = <<>>

\* The articles of the requests: one as the news search gives it, one for
\* which the client names another user as savedBy, one without source.
ItemX == [url |-> "x", hasSource |-> TRUE, savedBy |-> None]
ItemY == [url |-> "y", hasSource |-> TRUE, savedBy |-> Some("u2")]
ItemZ == [url |-> "z", hasSource |-> FALSE, savedBy |-> None]

ArrayOf(items) == Some([isArray |-> TRUE, items |-> items])

\* The bodies of POST /articles that store nothing: no articles, an object
\* with a length that is not an array, an empty array, an article without
\* source.
BadArticleBodies ==
    {None, Some([isArray |-> FALSE, items |-> <<ItemX>>]), ArrayOf(<<>>),
     ArrayOf(<<ItemZ>>)}

\* The POST /articles requests: u1 with each body that stores nothing, u3,
\* who is no user, and u1 and u2 with one or two articles of which the store
\* rejects none, some or all.
SaveCases ==
    ({"u1"} \X BadArticleBodies \X {{}})
    \cup ({"u3"} \X {ArrayOf(<<ItemY>>)} \X {{}})
    \cup ({"u1", "u2"} \X {ArrayOf(<<ItemY>>)} \X {{}, {1}})
    \cup ({"u1", "u2"} \X {ArrayOf(<<ItemX, ItemY>>)} \X {{}, {1}, {2}, {1, 2}})

ArticleIds == 1..(issued.articles + 1)

\* The days the clock may advance by between two requests.
Advances == {1, 7, 31}

\* The month before has 28 to 31 days.
MonthLengths == {28, 31}

Timeframes == {None, Some("day"), Some("week"), Some("month"), Some("year")}

ListCases ==
    (Timeframes \X {31}) \cup ({Some("month")} \X MonthLengths)

Tick(days) ==
    /\ now' = now + days
    /\ UNCHANGED <<env, users, categories, articles, newsletters,
                   notifications, genLog, issued, resp>>

HandleArticles ==
    \/ \E c \in SaveCases :
          /\ IF NoArticles(c[2]) THEN TRUE
             ELSE issued.articles < MaxArticles
          /\ SaveArticles(c[1], c[2], c[3])
    \/ \E caller \in {"u1", "u2"}, aid \in ArticleIds :
           DeleteArticle(caller, aid)
    \/ \E caller \in {"u1", "u2"}, c \in ListCases :
           ListArticles(caller, c[1], c[2])

NextArticles ==
    /\ served < MaxArticleSteps
    /\ served' = served + 1
    /\ UNCHANGED <<inflight, client>>
    /\ \/ HandleArticles /\ UNCHANGED now
       \/ \E days \in Advances : Tick(days)

SpecArticles == InitArticles /\ [][NextArticles]_vars

\* ------------------------------------------------- properties of the send route
\* The last request was a send that found its newsletter and had recipients.
SendReached ==
    /\ resp.op = "send"
    /\ resp.pre # None
    /\ resp.req.userIds \notin {None, Some(<<>>)}

\* The newsletter of the last request has status 'sent' and, as a set, the
\* recipients it had before the request together with the request's userIds.
SentAndUnioned ==
    /\ resp.req.nid \in DOMAIN newsletters
    /\ newsletters[resp.req.nid].status = "sent"
    /\ Range(newsletters[resp.req.nid].recipients)
         = Range(Val(resp.pre).recipients) \cup Range(Val(resp.req.userIds))

\* The mailer was called while serving the last send and rejected.
EmailFailed ==
    EmailAttempted(Val(resp.req.userIds)) /\ resp.req.fault = "email"

\* C1: after a send answered with success, the newsletter has status 'sent',
\* its recipients are, as a set, the union of those it had before and the
\* userIds of the request, and no id is in the list twice.
C1_SendUnionsRecipients ==
    resp.op = "send" /\ resp.code = 200 =>
        /\ SendReached
        /\ SentAndUnioned
        /\ NoDup(newsletters[resp.req.nid].recipients)

\* A second send whose ids overlap those of an earlier send: u3 was a recipient
\* (only a send can have added it) and the request names u2 and u3.
C1_Witness ==
    /\ resp.op = "send" /\ resp.code = 200
    /\ resp.req.userIds = Some(<<"u2", "u3">>)
    /\ resp.pre # None /\ Val(resp.pre).recipients = <<"u3">>
    /\ newsletters[resp.req.nid].recipients = <<"u3", "u2">>

\* C2: a send all of whose userIds are already recipients leaves the recipient
\* list as it was, each id in it once, and is answered 200 when neither the
\* mailer nor newsletter.save() rejects.
C2_ResendIdempotent ==
    SendReached
    /\ Range(Val(resp.req.userIds)) \subseteq Range(Val(resp.pre).recipients)
    => /\ resp.req.nid \in DOMAIN newsletters
       /\ newsletters[resp.req.nid].recipients = Val(resp.pre).recipients
       /\ NoDup(newsletters[resp.req.nid].recipients)
       /\ (~EmailFailed /\ resp.req.fault # "save" => resp.code = 200)

C2_Witness ==
    /\ SendReached /\ resp.code = 200
    /\ resp.req.userIds = Some(<<"u2">>)
    /\ Val(resp.pre).recipients = <<"u2", "u3">>
    /\ newsletters[resp.req.nid].recipients = <<"u2", "u3">>

\* C7 as stated: once the newsletter is found, it gets status 'sent' and the
\* union of the ids whatever the email step does (newsletter.save() not
\* rejecting).
C7_AsStated ==
    SendReached /\ resp.req.fault # "save" => SentAndUnioned

\* C7, amended: once the newsletter is found and newsletter.save() does not
\* reject, it gets status 'sent' and the union of the ids when the email step
\* is skipped or succeeds; when the mailer rejects, the request is answered
\* 500 and the newsletter stays as it was.
C7_UpdateUnlessEmailFails ==
    SendReached /\ resp.req.fault # "save" =>
        IF EmailFailed
        THEN /\ resp.code = 500
             /\ newsletters[resp.req.nid] = Val(resp.pre)
        ELSE SentAndUnioned

\* A send whose email failed, for a newsletter that was not yet sent.
C7_Witness ==
    /\ SendReached /\ EmailFailed
    /\ resp.code = 500
    /\ newsletters[resp.req.nid].status = "Not Sent"

\* C9: a send whose notification insert rejects is still answered 200, and the
\* newsletter keeps status 'sent' and the union of the ids.
C9_NotificationFailureTolerated ==
    SendReached /\ resp.req.fault = "notify" =>
        resp.code = 200 /\ SentAndUnioned

\* Such a send after which no notification of the newsletter's reception exists.
C9_Witness ==
    /\ SendReached /\ resp.req.fault = "notify" /\ resp.code = 200
    /\ newsletters[resp.req.nid].status = "sent"
    /\ \A i \in 1..Len(notifications) :
           notifications[i].message.kind # "received"

\* C8: where SENDGRID_API_KEY is not set, a send for a stored newsletter with
\* a non-empty userIds hands nothing to the mailer and, the database writes
\* not rejecting, gives the newsletter status 'sent' and the union of the ids,
\* appends one notification per given id and is answered 200.
C8_SendWithoutCredential ==
    [][(/\ ~env.sendgrid
        /\ resp'.op = "send"
        /\ resp'.pre # None
        /\ resp'.req.userIds \notin {None, Some(<<>>)}
        /\ resp'.req.fault \notin {"save", "notify"})
       => /\ resp'.mail = None
          /\ resp'.code = 200
          /\ newsletters'[resp'.req.nid].status = "sent"
          /\ Range(newsletters'[resp'.req.nid].recipients)
               = Range(newsletters[resp'.req.nid].recipients)
                   \cup Range(Val(resp'.req.userIds))
          /\ notifications'
               = notifications
                   \o [i \in 1..Len(Val(resp'.req.userIds)) |->
                         [user |-> Val(resp'.req.userIds)[i],
                          newsletter |-> resp'.req.nid,
                          message |->
                              ReceivedMessage(
                                  newsletters[resp'.req.nid].title),
                          isRead |-> FALSE]]]_vars

\* A send to a user with an email address, served without the credential.
C8_Witness ==
    /\ ~env.sendgrid
    /\ SendReached /\ resp.code = 200 /\ resp.mail = None
    /\ resp.req.userIds = Some(<<"u2", "u3">>)
    /\ Val(resp.pre).status = "Not Sent"
    /\ newsletters[resp.req.nid].status = "sent"
    /\ Len(notifications) >= 2
    /\ notifications[Len(notifications)].user = "u3"

\* C10: a send without userIds, or with an empty userIds, is answered 400; a
\* send with userIds for an id no stored newsletter has is answered 404; both
\* hand nothing to the mailer and leave every newsletter and the notifications
\* as they were.
C10_SendRejections ==
    [][resp'.op = "send" =>
        /\ resp'.req.userIds \in {None, Some(<<>>)} => resp'.code = 400
        /\ (resp'.req.userIds \notin {None, Some(<<>>)}
            /\ resp'.req.nid \notin DOMAIN newsletters) => resp'.code = 404
        /\ resp'.code \in {400, 404} =>
              /\ resp'.mail = None
              /\ UNCHANGED <<newsletters, notifications>>]_vars

\* A send to u2 answered 404 while another newsletter is stored.
C10_Witness ==
    /\ resp.op = "send" /\ resp.code = 404
    /\ resp.req.userIds = Some(<<"u2">>)
    /\ newsletters # <<>>

\* ------------------------------------------- properties of generate, download
\* The body lacks the articles, the title or the category, or has an empty
\* article list or an empty string for the title or the category.
Incomplete(body) ==
    \/ body.articles \in {None, Some(<<>>)}
    \/ body.title \in {None, Some("")}
    \/ body.category \in {None, Some("")}

\* C3 as stated: a generate request without articles, with an empty article
\* list, or without title or category is answered 400 and creates no
\* newsletter and no notification.
C3_AsStated ==
    [][resp'.op = "generate" /\ Incomplete(resp'.req.body) =>
        /\ resp'.code = 400
        /\ UNCHANGED <<newsletters, notifications>>]_vars

\* C3, amended: such a request creates no newsletter and no notification; it
\* is answered 400 where GEMINI_API_KEY is set and 500 where it is not.
C3_RejectedBeforeSaving ==
    [][resp'.op = "generate" /\ Incomplete(resp'.req.body) =>
        /\ resp'.code = IF env.gemini THEN 400 ELSE 500
        /\ UNCHANGED <<newsletters, notifications>>]_vars

\* A request with articles but an empty title, answered 400.
C3_Witness ==
    /\ resp.op = "generate" /\ resp.code = 400
    /\ resp.req.body.title = Some("")
    /\ resp.req.body.articles # None /\ Len(Val(resp.req.body.articles)) > 0
    /\ newsletters = <<>> /\ notifications = <<>>

\* C5: generate answers its caller with the bytes and content type it stores,
\* and a download of a newsletter a generate answered 200 for is answered 200
\* with those bytes and that content type for as long as the newsletter is
\* stored, whatever sends, self-sends and status changes it went through.
C5_DownloadRoundTrip ==
    /\ resp.op = "generate" /\ resp.code = 200 =>
          /\ NextNewsletterId - 1 \in DOMAIN newsletters
          /\ newsletters[NextNewsletterId - 1].pdfContent = resp.body
    /\ (/\ resp.op = "download"
        /\ resp.req.nid \in DOMAIN newsletters
        /\ resp.req.nid \in DOMAIN genLog
        /\ genLog[resp.req.nid] # None)
       => /\ resp.code = 200
          /\ resp.body = Some([data |-> Val(genLog[resp.req.nid]),
                               contentType |-> ContentTypePdf])

\* A download of the three-byte PDF after the newsletter was sent.
C5_Witness ==
    /\ resp.op = "download" /\ resp.code = 200
    /\ resp.body = Some([data |-> PdfB, contentType |-> ContentTypePdf])
    /\ Val(resp.pre).status = "sent"
    /\ Val(resp.pre).recipients # <<>>

\* ------------------------------------------ properties of the category routes
\* C4 as stated: once a category delete is answered with success, no admin
\* has the category's name among its categories, and every admin there was
\* before the request is still there.
C4_AsStated ==
    [][resp'.op = "deleteCategory" /\ resp'.code = 200 =>
        \A u \in DOMAIN users :
            users[u].userType = "admin" =>
                /\ u \in DOMAIN users'
                /\ Val(resp'.pre).name \notin Range(users'[u].categories)]_vars

\* ------------------------------------------- properties of the article routes
\* C6: a delete of a stored article by a caller other than the one who saved
\* it is answered 404 and leaves the article as it was; an article leaves the
\* collection only in a delete request for it made by the one who saved it.
C6_DeleteOnlyByOwner ==
    [][/\ (/\ resp'.op = "deleteArticle"
           /\ resp'.req.aid \in DOMAIN articles
           /\ articles[resp'.req.aid].savedBy # resp'.req.caller)
          => /\ resp'.code = 404
             /\ resp'.req.aid \in DOMAIN articles'
             /\ articles'[resp'.req.aid] = articles[resp'.req.aid]
       /\ \A a \in (DOMAIN articles) \ (DOMAIN articles') :
             /\ resp'.op = "deleteArticle"
             /\ resp'.req.aid = a
             /\ resp'.req.caller = articles[a].savedBy]_vars

\* u2 asked to delete an article u1 saved.
C6_Witness ==
    /\ resp.op = "deleteArticle" /\ resp.code = 404
    /\ resp.req.caller = "u2"
    /\ resp.pre # None /\ Val(resp.pre).savedBy = "u1"
    /\ resp.req.aid \in DOMAIN articles

\* ---------------------------------------------------- properties of generate
\* The last step served a generate request that passed the validation of its
\* body and got its HTML and its PDF.
GenerateRendered ==
    /\ resp'.op = "generate"
    /\ env.gemini
    /\ ~Incomplete(resp'.req.body)
    /\ ~resp'.req.ai.throws
    /\ StrippedLength(resp'.req.ai) >= MinHtmlLength
    /\ resp'.req.pdf # None

\* The step added exactly one newsletter, under id nid, and left the others.
OneNewNewsletter(nid) ==
    /\ nid \notin DOMAIN newsletters
    /\ DOMAIN newsletters' = (DOMAIN newsletters) \cup {nid}
    /\ \A n \in DOMAIN newsletters : newsletters'[n] = newsletters[n]

\* C11: a generate answered 200 added exactly one newsletter, with the title
\* and category of the request, the _id of each given article, status
\* 'Not Sent', no recipients and the PDF with its content type, and exactly
\* one notification, for the caller and referencing that newsletter; both are
\* stored when the response is sent.
C11_GenerateCreatesOneOfEach ==
    [][resp'.op = "generate" /\ resp'.code = 200 =>
        \E nid \in DOMAIN newsletters' :
            /\ OneNewNewsletter(nid)
            /\ newsletters'[nid]
                 = [title |-> Val(resp'.req.body.title),
                    category |-> Val(resp'.req.body.category),
                    articles |->
                        [i \in 1..Len(Val(resp'.req.body.articles)) |->
                            Val(resp'.req.body.articles)[i]._id],
                    status |-> "Not Sent",
                    recipients |-> <<>>,
                    pdfContent |-> Some([data |-> Val(resp'.req.pdf),
                                         contentType |-> "application/pdf"])]
            /\ notifications'
                 = Append(notifications,
                          [user |-> resp'.req.caller,
                           newsletter |-> nid,
                           message |->
                               GeneratedMessage(Val(resp'.req.body.title)),
                           isRead |-> FALSE])]_vars

\* A second generate: two newsletters are stored and the last notification is
\* the caller's, for the second.
C11_Witness ==
    /\ resp.op = "generate" /\ resp.code = 200
    /\ DOMAIN newsletters = {1, 2}
    /\ newsletters[2].articles = <<"a1", "a2">>
    /\ newsletters[2].status = "Not Sent"
    /\ Len(notifications) = 2
    /\ notifications[2].user = "u1" /\ notifications[2].newsletter = 2

\* C12: a generate whose AI call throws, whose HTML is empty or shorter than
\* the minimum once the fences are stripped, or whose PDF rendering fails is
\* answered 500 and stores neither a newsletter nor a notification; a generate
\* stores a newsletter only when the AI and the PDF step have both succeeded.
C12_NothingStoredBeforeRendering ==
    [][resp'.op = "generate" =>
        /\ (/\ env.gemini
            /\ ~Incomplete(resp'.req.body)
            /\ \/ resp'.req.ai.throws
               \/ StrippedLength(resp'.req.ai) < MinHtmlLength
               \/ resp'.req.pdf = None)
           => /\ resp'.code = 500
              /\ UNCHANGED <<newsletters, notifications>>
        /\ (newsletters' # newsletters \/ notifications' # notifications)
           => GenerateRendered]_vars

\* The AI answered 99 characters inside a code fence; nothing is stored.
C12_Witness ==
    /\ resp.op = "generate" /\ resp.code = 500
    /\ env.gemini
    /\ ~resp.req.ai.throws /\ resp.req.ai.fenceOpen /\ resp.req.ai.rawLen = 111
    /\ resp.req.pdf # None
    /\ newsletters = <<>> /\ notifications = <<>>

\* C13: a generate whose notification save rejects, after the newsletter was
\* saved, is answered 500; the one newsletter it saved stays stored, no
\* notification references it, and nothing is saved a second time.
C13_NoCleanupAfterNotificationFailure ==
    [][GenerateRendered /\ resp'.req.fault = "notify" =>
        /\ resp'.code = 500
        /\ notifications' = notifications
        /\ \E nid \in DOMAIN newsletters' :
              /\ OneNewNewsletter(nid)
              /\ newsletters'[nid].title = Val(resp'.req.body.title)
              /\ newsletters'[nid].pdfContent # None
              /\ \A i \in 1..Len(notifications') :
                    notifications'[i].newsletter # nid]_vars

\* Such a request: answered 500, with a newsletter stored and no notification.
C13_Witness ==
    /\ resp.op = "generate" /\ resp.code = 500
    /\ resp.req.fault = "notify"
    /\ DOMAIN newsletters = {1}
    /\ notifications = <<>>

\* --------------------------------------------- properties of the status route
\* C14: a status PATCH for a stored newsletter is answered 200 and leaves the
\* newsletter as it was except for its status, which is the one the request
\* gives, whatever the status was before.
C14_StatusSetVerbatim ==
    resp.op = "status" /\ resp.pre # None =>
        /\ resp.code = 200
        /\ resp.req.nid \in DOMAIN newsletters
        /\ newsletters[resp.req.nid].status = resp.req.status
        /\ newsletters[resp.req.nid].recipients = Val(resp.pre).recipients
        /\ newsletters[resp.req.nid].articles = Val(resp.pre).articles
        /\ newsletters[resp.req.nid].pdfContent = Val(resp.pre).pdfContent
        /\ newsletters[resp.req.nid].title = Val(resp.pre).title
        /\ newsletters[resp.req.nid].category = Val(resp.pre).category

\* A newsletter that was sent is put back to 'Not Sent'.
C14_Witness ==
    /\ resp.op = "status" /\ resp.code = 200
    /\ resp.pre # None /\ Val(resp.pre).status = "sent"
    /\ Val(resp.pre).recipients # <<>>
    /\ resp.req.status = "Not Sent"
    /\ newsletters[resp.req.nid].status = "Not Sent"

\* ------------------------------------------------- properties of the self-send
\* C15: a self-send answered 200 handed the mailer one message, addressed to
\* the caller's address alone and carrying the newsletter's PDF, added the
\* caller to the newsletter's recipients unless it already was one, changed
\* nothing else of the newsletter, and appended exactly one notification, for
\* the caller and referencing the newsletter.
C15_SelfSendToCallerOnly ==
    [][resp'.op = "selfsend" /\ resp'.code = 200 =>
        /\ resp'.req.caller \in DOMAIN users
        /\ Val(resp'.req.newsletterId) \in DOMAIN newsletters
        /\ resp'.mail
             = Some([to |-> {users[resp'.req.caller].email},
                     title |-> newsletters[Val(resp'.req.newsletterId)].title,
                     attachment |->
                         Base64(Val(newsletters[Val(resp'.req.newsletterId)]
                                        .pdfContent).data),
                     type |-> "application/pdf"])
        /\ newsletters'
             = [newsletters EXCEPT
                  ![Val(resp'.req.newsletterId)].recipients =
                      IF resp'.req.caller \in Range(@) THEN @
                      ELSE Append(@, resp'.req.caller)]
        /\ notifications'
             = Append(notifications,
                      [user |-> resp'.req.caller,
                       newsletter |-> Val(resp'.req.newsletterId),
                       message |->
                           SelfSentMessage(
                               newsletters[Val(resp'.req.newsletterId)].title),
                       isRead |-> FALSE])]_vars

\* A second self-send of the same newsletter by u2.
C15_Witness ==
    /\ resp.op = "selfsend" /\ resp.code = 200
    /\ resp.req.caller = "u2"
    /\ Val(resp.pre).recipients = <<"u2">>
    /\ newsletters[Val(resp.req.newsletterId)].recipients = <<"u2">>
    /\ Val(resp.mail).to = {"e2"}

\* ------------------------------------------- properties of the notifications
\* C17: a notification, once created, stays where it is with its user, its
\* newsletter and its message, and a read one stays read; a successful
\* mark-as-read makes exactly the caller's notifications read and leaves the
\* others as they were, and no other request changes isRead.
C17_NotificationsOnlyGetRead ==
    [][/\ Len(notifications') >= Len(notifications)
       /\ \A i \in 1..Len(notifications) :
             /\ notifications'[i].user = notifications[i].user
             /\ notifications'[i].newsletter = notifications[i].newsletter
             /\ notifications'[i].message = notifications[i].message
             /\ notifications[i].isRead => notifications'[i].isRead
             /\ notifications'[i].isRead # notifications[i].isRead
                => /\ resp'.op = "markread"
                   /\ notifications[i].user = resp'.req.caller
       /\ resp'.op = "markread" /\ resp'.code = 200
          => /\ Len(notifications') = Len(notifications)
             /\ \A i \in 1..Len(notifications) :
                   notifications'[i].isRead
                     = (notifications[i].isRead
                        \/ notifications[i].user = resp'.req.caller)]_vars

\* u2 marked its notifications read while u1 has an unread one.
C17_Witness ==
    /\ resp.op = "markread" /\ resp.code = 200 /\ resp.req.caller = "u2"
    /\ \E i \in 1..Len(notifications) :
          notifications[i].user = "u2" /\ notifications[i].isRead
    /\ \E i \in 1..Len(notifications) :
          notifications[i].user = "u1" /\ ~notifications[i].isRead

\* -------------------------------------------- properties of the delete route
\* C18: a delete of a stored newsletter is answered 200 and removes that
\* newsletter and nothing else; a delete of an id that is not stored is
\* answered 404 and removes nothing; either way the notifications, those
\* referencing the newsletter included, the users and the articles stay as
\* they were.
C18_DeleteRemovesOnlyTheNewsletter ==
    [][resp'.op = "delete" =>
        /\ resp'.req.nid \in DOMAIN newsletters
           => /\ resp'.code = 200
              /\ DOMAIN newsletters' = (DOMAIN newsletters) \ {resp'.req.nid}
              /\ \A n \in DOMAIN newsletters' :
                    newsletters'[n] = newsletters[n]
        /\ resp'.req.nid \notin DOMAIN newsletters
           => resp'.code = 404 /\ newsletters' = newsletters
        /\ UNCHANGED <<notifications, users, articles>>]_vars

\* A deleted newsletter that notifications still reference.
C18_Witness ==
    /\ resp.op = "delete" /\ resp.code = 200
    /\ resp.req.nid \notin DOMAIN newsletters
    /\ \E i \in 1..Len(notifications) :
          notifications[i].newsletter = resp.req.nid

\* C19: POST /articles answers 400 and stores nothing when the article list
\* is missing, not an array or empty; when the store rejects some of the
\* submitted articles as duplicates the answer is 200, every other article of
\* the batch is stored, and every article the request stores has savedBy
\* equal to the caller, whatever savedBy the client sent.
C19_SaveArticlesPartialSuccess ==
    [][(resp'.op = "saveArticles" /\ now' = now) =>
         LET body == resp'.req.articles
             caller == resp'.req.caller
             rejected == resp'.req.rejected
             none == IF body = None THEN TRUE
                     ELSE IF ~Val(body).isArray THEN TRUE
                     ELSE Len(Val(body).items) = 0
             new == (DOMAIN articles') \ (DOMAIN articles)
         IN
         /\ none => resp'.code = 400 /\ articles' = articles
         /\ \A a \in DOMAIN articles :
               a \in DOMAIN articles' /\ articles'[a] = articles[a]
         /\ \A a \in new : articles'[a].savedBy = caller
         /\ (/\ ~none
             /\ caller \in DOMAIN users
             /\ \A i \in 1..Len(Val(body).items) : Val(body).items[i].hasSource
             /\ rejected # {})
            => /\ resp'.code = 200
               /\ Cardinality(new)
                    = Cardinality((1..Len(Val(body).items)) \ rejected)
               /\ \A i \in (1..Len(Val(body).items)) \ rejected :
                     \E a \in new :
                         articles'[a].originalUrl = Val(body).items[i].url]_vars

\* u1 sent two articles, the second naming u2 as savedBy; the store rejected
\* the first as a duplicate, the answer was 200 and the second is stored as
\* saved by u1.
C19_Witness ==
    /\ resp.op = "saveArticles" /\ resp.code = 200
    /\ resp.req.caller = "u1"
    /\ resp.req.articles = ArrayOf(<<ItemX, ItemY>>)
    /\ resp.req.rejected = {1}
    /\ \E a \in DOMAIN articles :
          articles[a].originalUrl = "y" /\ articles[a].savedBy = "u1"

\* C20: GET /articles answers 200 with each of the caller's articles that is
\* in the window exactly once and nothing else: no article another user
\* saved; with timeframe day, week or month the articles saved no earlier
\* than one day, seven days or one month before the request; with any other
\* timeframe, or none, all of the caller's articles.
C20_ListOwnArticlesInWindow ==
    [][(resp'.op = "listArticles" /\ now' = now) =>
         LET caller == resp'.req.caller
             timeframe == resp'.req.timeframe
             from == IF timeframe = Some("day") THEN now - 1
                     ELSE IF timeframe = Some("week") THEN now - 7
                     ELSE now - resp'.req.monthLength
             windowed == timeframe \in {Some("day"), Some("week"),
                                        Some("month")}
             listed == Val(resp'.body)
         IN
         /\ resp'.code = 200
         /\ NoDup(listed)
         /\ Range(listed) =
              {a \in DOMAIN articles :
                  /\ articles[a].savedBy = caller
                  /\ windowed => articles[a].createdAt >= from}
         /\ \A i, j \in 1..Len(listed) :
               i < j => articles[listed[i]].createdAt
                          >= articles[listed[j]].createdAt]_vars

\* u1 listed the articles of the last day and got one, while the collection
\* holds an older article of u1 and an article of u2.
C20_Witness ==
    /\ resp.op = "listArticles"
    /\ resp.req.caller = "u1" /\ resp.req.timeframe = Some("day")
    /\ Len(Val(resp.body)) = 1
    /\ \E a \in DOMAIN articles :
          /\ articles[a].savedBy = "u1"
          /\ articles[a].createdAt < now - 1
    /\ \E a \in DOMAIN articles : articles[a].savedBy = "u2"
    /\ articles[Val(resp.body)[1]].createdAt >= now - 1

\* ------------------------------------------------- concurrent send requests
\* The send requests in flight at once.  Each runs the handler of
\* POST /newsletters/:id/send from one await to the next; between two awaits
\* of one request the steps of the others may run.
Senders == 2

\* The newsletter the requests are for.
SentId == 1

ConcurrentUserIds ==
    {<<"u1">>, <<"u2">>, <<"u1", "u2">>, <<"u2", "u3">>, <<"u3", "u3">>}

\* A request not yet received.  doc is the document as findById gave it,
\* mails the calls of sgMail.send the request has made: the message, and
\* whether the mailer accepted it.
Idle == [pc |-> "idle", userIds |-> <<>>, doc |-> None, mails |-> <<>>,
         code |-> 0]

InitConcurrentSend ==
    /\ env = FullEnv
    /\ users = NewsUsers
    /\ categories = <<>>
    /\ articles = <<>>
    /\ issued = [users |-> 2, categories |-> 0, articles |-> 0]
    /\ \E stored \in {<<>>, <<"u1">>} :
          newsletters =
              (SentId :> [NewNewsletter(GoodBody, PdfA)
                              EXCEPT !.recipients = stored])
    /\ notifications = <<>>
    /\ genLog = <<>>
    /\ resp = Response("init", <<>>, None, 0, None, None)
    /\ served = 0
    /\ now = 0
    /\ inflight = [r \in 1..Senders |-> Idle]
    /\ client = <<>>

\* A save that writes the whole document as the request holds it.
SavedWhole(stored, loaded, userIds) ==
    [loaded EXCEPT !.status = "sent",
                   !.recipients = AddToSet(@, userIds)]

\* newsletter.save() after status = 'sent' and recipients.addToSet(...userIds):
\* the update sets the paths that were modified, status where it was not
\* 'sent' already, and adds to the stored recipients, in one atomic
\* $addToSet, the values addToSet appended to the loaded array.
SavedDocument(stored, loaded, userIds) ==
    LET grown == AddToSet(loaded.recipients, userIds)
        added == SubSeq(grown, Len(loaded.recipients) + 1, Len(grown))
    IN [stored EXCEPT
          !.status = IF loaded.status = "sent" THEN @ ELSE "sent",
          !.recipients = AddToSet(@, added)]

Answered(r, code) ==
    /\ inflight' = [inflight EXCEPT ![r].pc = "done", ![r].code = code]
    /\ resp' = Response("send",
                        [nid |-> SentId, userIds |-> Some(inflight[r].userIds),
                         fault |-> "none"],
                        inflight[r].doc, code, None, None)
    /\ served' = served + 1

\* The request arrives with its body.
SendArrives(r, userIds) ==
    /\ inflight[r].pc = "idle"
    /\ inflight' = [inflight EXCEPT ![r].pc = "received",
                                    ![r].userIds = userIds]
    /\ UNCHANGED <<env, users, categories, articles, newsletters,
                   notifications, genLog, issued, resp, served, now>>

\* The check of userIds and Newsletter.findById.
SendLoads(r) ==
    /\ inflight[r].pc = "received"
    /\ IF NoRecipients(Some(inflight[r].userIds)) THEN
           Answered(r, 400)
       ELSE IF FindNewsletter(SentId) = None THEN
           Answered(r, 404)
       ELSE
           /\ inflight' = [inflight EXCEPT ![r].pc = "loaded",
                                           ![r].doc = FindNewsletter(SentId)]
           /\ UNCHANGED <<resp, served>>
    /\ UNCHANGED <<env, users, categories, articles, newsletters,
                   notifications, genLog, issued, now>>

\* One message for each of the ids that is the id of a user.
MailerCallsPerRecipient(mails, newsletter, userIds, fails) ==
    LET known == SelectSeq(userIds, LAMBDA u : u \in DOMAIN users)
    IN mails \o [i \in 1..Len(known) |->
                   [msg |-> SendMail(newsletter, {users[known[i]].email}),
                    accepted |-> ~fails]]

\* if (process.env.SENDGRID_API_KEY) { recipients = await User.find(...);
\* if (recipients.length > 0) await sgMail.send(msg) }: one call, with one
\* message to every address found, or none.
MailerCalls(mails, newsletter, userIds, fails) ==
    IF EmailAttempted(userIds)
    THEN Append(mails, [msg |-> SendMail(newsletter, RecipientEmails(userIds)),
                        accepted |-> ~fails])
    ELSE mails

\* User.find and sgMail.send, where the mailer is called.
SendMails(r, fails) ==
    /\ inflight[r].pc = "loaded"
    /\ LET mails == MailerCalls(inflight[r].mails, Val(inflight[r].doc),
                                inflight[r].userIds, fails)
       IN
       IF EmailAttempted(inflight[r].userIds) /\ fails THEN
           /\ inflight' = [inflight EXCEPT ![r].pc = "done", ![r].code = 500,
                                           ![r].mails = mails]
           /\ resp' = Response("send",
                               [nid |-> SentId,
                                userIds |-> Some(inflight[r].userIds),
                                fault |-> "email"],
                               inflight[r].doc, 500, None, None)
           /\ served' = served + 1
       ELSE
           /\ inflight' = [inflight EXCEPT ![r].pc = "mailed",
                                           ![r].mails = mails]
           /\ UNCHANGED <<resp, served>>
    /\ UNCHANGED <<env, users, categories, articles, newsletters,
                   notifications, genLog, issued, now>>

\* status = 'sent', recipients.addToSet(...userIds) and newsletter.save().
SendSaves(r, fails) ==
    /\ inflight[r].pc = "mailed"
    /\ IF fails \/ SentId \notin DOMAIN newsletters THEN
           Answered(r, 500) /\ UNCHANGED newsletters
       ELSE
           /\ newsletters' =
                 [newsletters EXCEPT
                    ![SentId] = SavedDocument(@, Val(inflight[r].doc),
                                              inflight[r].userIds)]
           /\ inflight' = [inflight EXCEPT ![r].pc = "saved"]
           /\ UNCHANGED <<resp, served>>
    /\ UNCHANGED <<env, users, categories, articles, notifications, genLog,
                   issued, now>>

\* Notification.insertMany, whose failure is caught, and the answer.
SendAnswers(r, fails) ==
    /\ inflight[r].pc = "saved"
    /\ LET docs == SendNotifications(SentId, Val(inflight[r].doc).title,
                                     inflight[r].userIds)
       IN \E inserted \in (IF fails THEN PartialInserts(docs) ELSE {docs}) :
             notifications' = notifications \o inserted
    /\ Answered(r, 200)
    /\ UNCHANGED <<env, users, categories, articles, newsletters, genLog,
                   issued, now>>

NextConcurrentSend ==
    /\ \/ \E r \in 1..Senders, userIds \in ConcurrentUserIds :
              SendArrives(r, userIds)
       \/ \E r \in 1..Senders : SendLoads(r)
       \/ \E r \in 1..Senders, fails \in BOOLEAN : SendMails(r, fails)
       \/ \E r \in 1..Senders, fails \in BOOLEAN : SendSaves(r, fails)
       \/ \E r \in 1..Senders, fails \in BOOLEAN : SendAnswers(r, fails)
    /\ UNCHANGED client

SpecConcurrentSend == InitConcurrentSend /\ [][NextConcurrentSend]_vars

\* C16: when two send requests for one newsletter have both answered 200,
\* the stored recipients hold every id of either request's userIds, each
\* exactly once, however the requests' loads and saves were interleaved.
C16_NoRecipientUpdateLost ==
    \A r1, r2 \in DOMAIN inflight :
        (/\ r1 # r2
         /\ inflight[r1].pc = "done" /\ inflight[r1].code = 200
         /\ inflight[r2].pc = "done" /\ inflight[r2].code = 200)
        => /\ SentId \in DOMAIN newsletters
           /\ Range(inflight[r1].userIds) \cup Range(inflight[r2].userIds)
                \subseteq Range(newsletters[SentId].recipients)
           /\ NoDup(newsletters[SentId].recipients)

\* Two requests, one for u1 and one for u2 and u3, each loaded the newsletter
\* while it had no recipients, and both answered 200: the newsletter holds
\* the three ids.
C16_Witness ==
    /\ DOMAIN inflight = 1..Senders
    /\ inflight[1].pc = "done" /\ inflight[1].code = 200
    /\ inflight[2].pc = "done" /\ inflight[2].code = 200
    /\ inflight[1].userIds = <<"u1">> /\ inflight[2].userIds = <<"u2", "u3">>
    /\ Val(inflight[1].doc).recipients = <<>>
    /\ Val(inflight[2].doc).recipients = <<>>
    /\ Range(newsletters[SentId].recipients) = {"u1", "u2", "u3"}

\* ------------------------------------------------------ POST /admins/add-user
\* A new user who is an admin.
NewUserAsAdmin(name, email, cats) ==
    [name |-> name, email |-> Trim(email), userType |-> "admin",
     categories |-> IF cats = None THEN <<>> ELSE Val(cats)]

\* new User({ name, email, userType: 'user', categories: categories || [] })
NewUser(name, email, cats) ==
    [name |-> name, email |-> Trim(email), userType |-> "user",
     categories |-> IF cats = None THEN <<>> ELSE Val(cats)]

\* The part add-user and super-add-user have in common: the check of name
\* and email, the search for the email, and the save of the new user.
SaveNewUser(op, req, name, email, cats) ==
    LET id == UserIdPool[issued.users + 1]
        R(code, out) == Response(op, req, None, code, None, out)
    IN
    IF Falsy(name) \/ Falsy(email) THEN
        /\ resp' = R(400, None)
        /\ UNCHANGED <<env, users, categories, articles, newsletters,
                       notifications, genLog, issued>>
    ELSE IF EmailTaken(Val(email)) THEN
        /\ resp' = R(400, None)
        /\ UNCHANGED <<env, users, categories, articles, newsletters,
                       notifications, genLog, issued>>
    ELSE
        /\ users' = (id :> NewUser(Val(name), Val(email), cats)) @@ users
        /\ issued' = [issued EXCEPT !.users = @ + 1]
        /\ resp' = R(201, Some(id))
        /\ UNCHANGED <<env, categories, articles, newsletters, notifications,
                       genLog>>

AddUser(caller, name, email, cats) ==
    SaveNewUser("addUser",
                [caller |-> caller, name |-> name, email |-> email,
                 categories |-> cats],
                name, email, cats)

\* --------------------------------------- PATCH /admins/remove-user-from-category
\* Every admin may manage every category.
ManagesEverything(admin, category) == TRUE

\* admin.categories.includes(category)
Manages(admin, category) == category \in Range(admin.categories)

RemoveUserFromCategory(caller, userId, categoryName) ==
    LET admin == FindUser(caller)
        found == IF userId = None THEN None ELSE FindUser(Val(userId))
        R(code) ==
            Response("removeUserFromCategory",
                     [caller |-> caller, userId |-> userId,
                      categoryName |-> categoryName],
                     found, code, None, None)
        same == UNCHANGED <<env, users, categories, articles, newsletters,
                            notifications, genLog, issued>>
    IN
    IF Falsy(userId) \/ Falsy(categoryName) THEN
        resp' = R(400) /\ same
    ELSE IF admin = None THEN
        \* admin.categories of null throws
        resp' = R(500) /\ same
    ELSE IF ~Manages(Val(admin), Val(categoryName)) THEN
        resp' = R(403) /\ same
    ELSE IF found = None THEN
        resp' = R(404) /\ same
    ELSE
        /\ users' = [users EXCEPT
                       ![Val(userId)].categories = Pull(@, Val(categoryName))]
        /\ resp' = R(200)
        /\ UNCHANGED <<env, categories, articles, newsletters, notifications,
                       genLog, issued>>

\* ------------------------------------------ PATCH /admins/add-users-to-category
\* User.updateMany({ _id: { $in: userIds } }, { $addToSet: { categories } })
AddCategoryToUsers(userIds, category) ==
    [u \in DOMAIN users |->
        IF u \in Range(userIds)
        THEN [users[u] EXCEPT !.categories = AddToSet(@, <<category>>)]
        ELSE users[u]]

\* userIds: None where the body has no array of ids.
AddUsersToCategory(caller, userIds, category) ==
    LET admin == FindUser(caller)
        R(code) ==
            Response("addUsersToCategory",
                     [caller |-> caller, userIds |-> userIds,
                      category |-> category],
                     None, code, None, None)
        same == UNCHANGED <<env, users, categories, articles, newsletters,
                            notifications, genLog, issued>>
    IN
    IF NoRecipients(userIds) THEN
        resp' = R(400) /\ same
    ELSE IF Falsy(category) THEN
        resp' = R(400) /\ same
    ELSE IF admin = None THEN
        resp' = R(500) /\ same
    ELSE IF ~Manages(Val(admin), Val(category)) THEN
        resp' = R(403) /\ same
    ELSE
        LET updated == AddCategoryToUsers(Val(userIds), Val(category))
            matched == Range(Val(userIds)) \cap DOMAIN users
            modified == {u \in matched : updated[u] # users[u]}
        IN
        /\ users' = updated
        /\ resp' = R(IF modified = {} /\ matched # {} THEN 200
                     ELSE IF modified = {} THEN 404
                     ELSE 200)
        /\ UNCHANGED <<env, categories, articles, newsletters, notifications,
                       genLog, issued>>

\* ----------------------------------------------- the superadmin's user routes
\* Every caller who is a stored user passes.
IsSuperadminAnyUser(requester) == requester # None

\* !(!requester || requester.userType !== 'superadmin')
IsSuperadmin(requester) ==
    IF requester = None THEN FALSE ELSE Val(requester).userType = "superadmin"

\* Every user but an admin counts as a regular user.
IsRegularUserOrSuper(user) == user.userType # "admin"

\* !(userToDelete.userType !== 'user')
IsRegularUser(user) == user.userType = "user"

\* GET /admins/all-regular-users: the body is the set of the ids listed.
ListRegularUsers(caller) ==
    /\ resp' = IF ~IsSuperadmin(FindUser(caller))
               THEN Response("listRegularUsers", [caller |-> caller], None,
                             403, None, None)
               ELSE Response("listRegularUsers", [caller |-> caller], None,
                             200, None,
                             Some({u \in DOMAIN users :
                                      users[u].userType = "user"}))
    /\ UNCHANGED <<env, users, categories, articles, newsletters,
                   notifications, genLog, issued>>

\* DELETE /admins/user/:id
DeleteUser(caller, id) ==
    LET userToDelete == FindUser(id)
        R(code) == Response("deleteUser", [caller |-> caller, id |-> id],
                            userToDelete, code, None, None)
        same == UNCHANGED <<env, users, categories, articles, newsletters,
                            notifications, genLog, issued>>
    IN
    IF ~IsSuperadmin(FindUser(caller)) THEN
        resp' = R(403) /\ same
    ELSE IF userToDelete = None THEN
        resp' = R(404) /\ same
    ELSE IF ~IsRegularUser(Val(userToDelete)) THEN
        resp' = R(400) /\ same
    ELSE
        /\ users' = [u \in DOMAIN users \ {id} |-> users[u]]
        /\ resp' = R(200)
        /\ UNCHANGED <<env, categories, articles, newsletters, notifications,
                       genLog, issued>>

\* POST /admins/super-add-user
SuperAddUser(caller, name, email, cats) ==
    LET req == [caller |-> caller, name |-> name, email |-> email,
                categories |-> cats]
    IN
    IF ~IsSuperadmin(FindUser(caller)) THEN
        /\ resp' = Response("superAddUser", req, None, 403, None, None)
        /\ UNCHANGED <<env, users, categories, articles, newsletters,
                       notifications, genLog, issued>>
    ELSE
        SaveNewUser("superAddUser", req, name, email, cats)

\* PATCH /admins/user/:id/subscriptions.  cats: None where the body has no
\* categories array.
UpdateSubscriptions(caller, id, cats) ==
    LET userToUpdate == FindUser(id)
        R(code, out) ==
            Response("updateSubscriptions",
                     [caller |-> caller, id |-> id, categories |-> cats],
                     userToUpdate, code, None, out)
        same == UNCHANGED <<env, users, categories, articles, newsletters,
                            notifications, genLog, issued>>
    IN
    IF ~IsSuperadmin(FindUser(caller)) THEN
        resp' = R(403, None) /\ same
    ELSE IF cats = None THEN
        resp' = R(400, None) /\ same
    ELSE IF userToUpdate = None THEN
        resp' = R(404, None) /\ same
    ELSE IF Val(userToUpdate).userType # "user" THEN
        resp' = R(400, None) /\ same
    ELSE
        LET updated == [Val(userToUpdate) EXCEPT !.categories = Val(cats)]
        IN
        /\ users' = [users EXCEPT ![id] = updated]
        /\ resp' = R(200, Some(updated))
        /\ UNCHANGED <<env, categories, articles, newsletters, notifications,
                       genLog, issued>>

\* --------------------------------------------------- PATCH /users/me/profile
\* The email of the body is taken whether or not another user has it.
EmailInUseNever(email) == FALSE

\* email && email !== user.email && existingUser
EmailInUse(email) == EmailTaken(email)

UpdateProfile(caller, name, email) ==
    LET user == FindUser(caller)
        R(code, out) ==
            Response("updateProfile",
                     [caller |-> caller, name |-> name, email |-> email],
                     user, code, None, out)
        same == UNCHANGED <<env, users, categories, articles, newsletters,
                            notifications, genLog, issued>>
    IN
    IF user = None THEN
        resp' = R(404, None) /\ same
    ELSE
        LET changes == ~Falsy(email) /\ Val(email) # Val(user).email
            withEmail == IF changes
                         THEN [Val(user) EXCEPT !.email = Trim(Val(email))]
                         ELSE Val(user)
            updated == IF Falsy(name) THEN withEmail
                       ELSE [withEmail EXCEPT !.name = Val(name)]
        IN
        IF changes /\ EmailInUse(Val(email)) THEN
            resp' = R(400, None) /\ same
        ELSE IF EmailClash(caller, updated.email) THEN
            \* the unique index rejects the save
            resp' = R(500, None) /\ same
        ELSE
            /\ users' = [users EXCEPT ![caller] = updated]
            /\ resp' = R(200, Some(updated))
            /\ UNCHANGED <<env, categories, articles, newsletters,
                           notifications, genLog, issued>>

\* ------------------------------------------------ the user management routes
MaxUserRequests == 3

\* u1, the superadmin; u2, the admin of category c1; u3, a user subscribed to
\* c1.  The categories c1 and c2 are stored, c2 without an admin.
ManagedUsers ==
    [u \in {"u1", "u2", "u3"} |->
        [name |-> u,
         email |-> IF u = "u1" THEN "e1" ELSE IF u = "u2" THEN "e2" ELSE "e3",
         userType |-> IF u = "u1" THEN "superadmin"
                      ELSE IF u = "u2" THEN "admin" ELSE "user",
         categories |-> IF u = "u1" THEN <<>> ELSE <<"c1">>]]

InitUsers ==
    /\ env = FullEnv
    /\ users = ManagedUsers
    /\ categories = ("k1" :> [name |-> "c1", admins |-> <<"u2">>])
                    @@ ("k2" :> [name |-> "c2", admins |-> <<>>])
    /\ articles = <<>>
    /\ issued = [users |-> 3, categories |-> 2, articles |-> 0]
    /\ newsletters = <<>>
    /\ notifications = <<>>
    /\ genLog = <<>>
    /\ resp = Response("init", <<>>, None, 0, None, None)
    /\ served = 0
    /\ now = 0
    /\ inflight = <<>>
    /\ client = <<>>

\* The name and email of a request that creates a user: no name, an email a
\* user has, that email with a blank before it, and a new email plain and
\* padded.
NewUserBodies ==
    {<<None, Some("e4")>>, <<Some("n"), Some("e1")>>,
     <<Some("n"), Some(" e1")>>, <<Some("n"), Some("e4")>>,
     <<Some("n"), Some(" e4")>>}

\* The name and email of PATCH /users/me/profile.
ProfileBodies ==
    {<<Some("m"), None>>, <<None, Some("e1")>>, <<None, Some("e3")>>,
     <<Some("m"), Some(" e1")>>, <<None, Some("e4")>>}

SubscriptionLists == {None, Some(<<>>), Some(<<"c2">>), Some(<<"c1", "c1">>)}

UserIdLists == {None, Some(<<>>), Some(<<"u3">>), Some(<<"u3", "u4">>),
                Some(<<"u9">>)}

HandleUsers ==
    \/ \E b \in NewUserBodies, cats \in {None, Some(<<"c1">>)} :
           AddUser("u2", b[1], b[2], cats)
    \/ \E caller \in {"u1", "u2"}, b \in NewUserBodies :
           SuperAddUser(caller, b[1], b[2], Some(<<"c2">>))
    \/ \E caller \in {"u1", "u2"} : ListRegularUsers(caller)
    \/ \E caller \in {"u1", "u2"}, id \in UserIds : DeleteUser(caller, id)
    \/ \E caller \in {"u1", "u2"}, id \in UserIds, cats \in SubscriptionLists :
           UpdateSubscriptions(caller, id, cats)
    \/ \E caller \in {"u2", "u3"}, b \in ProfileBodies :
           UpdateProfile(caller, b[1], b[2])
    \/ \E caller \in {"u2", "u3"}, cats \in {<<"c2">>, <<"c1", "c1">>} :
           UpdateMyCategories(caller, cats)
    \/ \E caller \in {"u2", "u3"},
          userId \in {None} \cup {Some(u) : u \in UserIds},
          categoryName \in CategoryNames :
           RemoveUserFromCategory(caller, userId, categoryName)
    \/ \E caller \in {"u2", "u3"}, userIds \in UserIdLists,
          category \in CategoryNames :
           AddUsersToCategory(caller, userIds, category)
    \/ \E cats \in {<<>>, <<"c2">>} :
           CreateAdmin(Some("n"), Some("e5"), Some("pw"), cats)
    \/ \E id \in UserIds, email \in {Some("e1"), Some("e6")} :
           UpdateAdmin(id, Some("m"), email, <<"c2">>)
    \/ \E id \in UserIds : DeleteAdmin(id)

NextUsers ==
    /\ served < MaxUserRequests
    /\ HandleUsers
    /\ served' = served + 1
    /\ UNCHANGED <<now, inflight, client>>

SpecUsers == InitUsers /\ [][NextUsers]_vars

\* ---------------------------------- properties of the user management routes
EmailsUnique ==
    \A u, v \in DOMAIN users : u # v => users[u].email # users[v].email

\* The request of this step creates a user (add-user, super-add-user by a
\* superadmin, POST /admins) with every required field set.
CreatesUser ==
    /\ resp'.op \in {"addUser", "superAddUser", "createAdmin"}
    /\ resp'.req.name \notin {None, Some("")}
    /\ resp'.req.email \notin {None, Some("")}
    /\ resp'.op = "createAdmin" => resp'.req.password \notin {None, Some("")}
    /\ resp'.op = "superAddUser" =>
          /\ resp'.req.caller \in DOMAIN users
          /\ users[resp'.req.caller].userType = "superadmin"

\* C21: no two stored users ever have the same email; a request that creates
\* a user with an email a stored user has, and a profile update to an email
\* another stored user has, are answered 400 and leave every user as it was.
C21_EmailsStayUnique ==
    /\ []EmailsUnique
    /\ [][/\ (/\ CreatesUser
              /\ \E u \in DOMAIN users :
                    users[u].email = Trim(Val(resp'.req.email)))
             => resp'.code = 400 /\ users' = users
          /\ (/\ resp'.op = "updateProfile"
              /\ resp'.req.caller \in DOMAIN users
              /\ resp'.req.email \notin {None, Some("")}
              /\ \E u \in DOMAIN users \ {resp'.req.caller} :
                    users[u].email = Trim(Val(resp'.req.email)))
             => resp'.code = 400 /\ users' = users]_vars

\* u3 asked for the email of u1, written with a blank before it, after a user
\* was added; the answer was 400.
C21_Witness ==
    /\ resp.op = "updateProfile" /\ resp.code = 400
    /\ resp.req.caller = "u3" /\ resp.req.email = Some(" e1")
    /\ "u4" \in DOMAIN users /\ users["u4"].email = "e4"
    /\ users["u3"].email = "e3"

\* C22: every user keeps the userType it was created with, whatever request
\* is served; a user comes into being only in add-user and super-add-user,
\* as 'user', and in POST /admins, as 'admin'.
C22_UserTypeFixed ==
    [][/\ \A u \in (DOMAIN users) \cap (DOMAIN users') :
             users'[u].userType = users[u].userType
       /\ \A u \in (DOMAIN users') \ (DOMAIN users) :
             /\ resp'.op \in {"addUser", "superAddUser", "createAdmin"}
             /\ users'[u].userType =
                  (IF resp'.op = "createAdmin" THEN "admin" ELSE "user")]_vars

\* PATCH /admins/:id was served for u4, a user that add-user created, and u4
\* is still of type 'user' with the categories of the request.
C22_Witness ==
    /\ resp.op = "updateAdmin" /\ resp.code = 200
    /\ resp.req.id = "u4"
    /\ users["u4"].userType = "user"
    /\ users["u4"].categories = <<"c2">>

\* The caller of the request of this step is a stored superadmin.
BySuperadmin ==
    /\ resp'.req.caller \in DOMAIN users
    /\ users[resp'.req.caller].userType = "superadmin"

\* C23: list-regular-users, delete-user, super-add-user and edit-subscriptions
\* by a caller who is not a stored superadmin are answered 403 and change
\* nothing stored; for a superadmin, delete-user, and edit-subscriptions with
\* a categories array, are answered 404 for an id no user has and 400 for a
\* user whose type is not 'user', and change nothing stored.
C23_SuperadminOnly ==
    [][/\ (/\ resp'.op \in {"listRegularUsers", "deleteUser", "superAddUser",
                            "updateSubscriptions"}
           /\ ~BySuperadmin)
          => resp'.code = 403 /\ UNCHANGED <<users, categories>>
       /\ (/\ \/ resp'.op = "deleteUser"
              \/ resp'.op = "updateSubscriptions"
                 /\ resp'.req.categories # None
           /\ BySuperadmin)
          => /\ resp'.req.id \notin DOMAIN users
                => resp'.code = 404 /\ UNCHANGED <<users, categories>>
             /\ (/\ resp'.req.id \in DOMAIN users
                 /\ users[resp'.req.id].userType # "user")
                => resp'.code = 400 /\ UNCHANGED <<users, categories>>]_vars

\* The superadmin asked to set the subscriptions of u2, an admin, and got
\* 400; u2 has the categories it had.
C23_Witness ==
    /\ resp.op = "updateSubscriptions" /\ resp.code = 400
    /\ resp.req.caller = "u1" /\ resp.req.id = "u2"
    /\ resp.req.categories = Some(<<"c2">>)
    /\ users["u2"].categories = <<"c1">>

\* C25: no request removes a superadmin: the superadmins of the state before
\* a step are superadmins after it; DELETE /admins/:id for a superadmin is
\* answered 403 and changes no user and no category; DELETE /admins/user/:id
\* for a stored user whose type is not 'user' deletes nothing.
C25_SuperadminsStay ==
    [][/\ \A u \in DOMAIN users :
             users[u].userType = "superadmin"
             => u \in DOMAIN users' /\ users'[u].userType = "superadmin"
       /\ (/\ resp'.op = "deleteAdmin"
           /\ resp'.req.id \in DOMAIN users
           /\ users[resp'.req.id].userType = "superadmin")
          => resp'.code = 403 /\ UNCHANGED <<users, categories>>
       /\ (/\ resp'.op = "deleteUser"
           /\ resp'.req.id \in DOMAIN users
           /\ users[resp'.req.id].userType # "user")
          => resp'.code \in {400, 403} /\ UNCHANGED <<users, categories>>]_vars

\* The superadmin asked DELETE /admins/user/:id for itself, got 400 and is
\* still stored.
C25_Witness ==
    /\ resp.op = "deleteUser" /\ resp.code = 400
    /\ resp.req.caller = "u1" /\ resp.req.id = "u1"
    /\ "u1" \in DOMAIN users /\ users["u1"].userType = "superadmin"

\* The request of this step names a category that its caller, a stored
\* user, has in its categories.
CallerManages(category) ==
    /\ resp'.req.caller \in DOMAIN users
    /\ category \in Range(users[resp'.req.caller].categories)

\* C26: remove-user-from-category and add-users-to-category for a category
\* that is not in the caller's categories are answered 403, and no request
\* of the two changes a user unless the category is in the caller's
\* categories; an authorized add appends the category to the lists of the
\* named users that lack it and leaves the other lists as they are; an
\* authorized remove takes that category, and nothing else, out of the named
\* user's list.
C26_CategoryManagedByItsAdmin ==
    [][/\ (/\ resp'.op = "removeUserFromCategory"
           /\ resp'.req.userId \notin {None, Some("")}
           /\ resp'.req.categoryName \notin {None, Some("")}
           /\ resp'.req.caller \in DOMAIN users)
          => IF ~CallerManages(Val(resp'.req.categoryName))
             THEN resp'.code = 403 /\ users' = users
             ELSE /\ DOMAIN users' = DOMAIN users
                  /\ \A u \in DOMAIN users :
                        users'[u] =
                          IF u = Val(resp'.req.userId)
                          THEN [users[u] EXCEPT !.categories =
                                  SelectSeq(@, LAMBDA c :
                                      c # Val(resp'.req.categoryName))]
                          ELSE users[u]
       /\ (/\ resp'.op = "addUsersToCategory"
           /\ resp'.req.userIds \notin {None, Some(<<>>)}
           /\ resp'.req.category \notin {None, Some("")}
           /\ resp'.req.caller \in DOMAIN users)
          => IF ~CallerManages(Val(resp'.req.category))
             THEN resp'.code = 403 /\ users' = users
             ELSE /\ DOMAIN users' = DOMAIN users
                  /\ \A u \in DOMAIN users :
                        users'[u] =
                          IF /\ u \in Range(Val(resp'.req.userIds))
                             /\ Val(resp'.req.category)
                                  \notin Range(users[u].categories)
                          THEN [users[u] EXCEPT !.categories =
                                  Append(@, Val(resp'.req.category))]
                          ELSE users[u]
       /\ (/\ resp'.op \in {"removeUserFromCategory", "addUsersToCategory"}
           /\ users' # users)
          => CallerManages(IF resp'.op = "addUsersToCategory"
                           THEN Val(resp'.req.category)
                           ELSE Val(resp'.req.categoryName))]_vars

\* u2, who has c1 only, asked to add u3 to c2 and got 403; u3 has the
\* categories it had.
C26_Witness ==
    /\ resp.op = "addUsersToCategory" /\ resp.code = 403
    /\ resp.req.caller = "u2" /\ resp.req.category = Some("c2")
    /\ resp.req.userIds = Some(<<"u3">>)
    /\ users["u3"].categories = <<"c1">>
    /\ users["u2"].categories = <<"c1">>

\* ------------------------------- properties of the category-admin assignment
\* For every stored category and every stored admin or superadmin, the admin
\* is among the category's admins exactly when the category's name is among
\* the admin's categories.
Agree(us, cs) ==
    \A c \in DOMAIN cs, a \in DOMAIN us :
        us[a].userType \in {"admin", "superadmin"}
        => (a \in Range(cs[c].admins) <=> cs[c].name \in Range(us[a].categories))

C27_SelfSendOrder ==
    [][resp'.op = "selfsend" =>
         LET id == resp'.req.newsletterId
             missing == /\ id # None
                        /\ \/ Val(id) \notin DOMAIN newsletters
                           \/ newsletters[Val(id)].pdfContent = None
         IN
         /\ DOMAIN newsletters' = DOMAIN newsletters
         /\ \A n \in DOMAIN newsletters :
               newsletters'[n].status = newsletters[n].status
         /\ (~env.sendgrid \/ ~env.fromEmail \/ missing
             \/ resp'.req.fault = "email")
            => /\ resp'.code \in {400, 404, 500}
               /\ UNCHANGED <<newsletters, notifications>>
         /\ newsletters' # newsletters => resp'.mail # None
         /\ notifications' # notifications
            => /\ resp'.mail # None
               /\ resp'.req.caller
                    \in Range(newsletters'[Val(id)].recipients)]_vars

\* u2 asked for a stored newsletter it had not received, the mailer rejected
\* the message, the answer was 500 and u2 is not among the recipients.
C27_Witness ==
    /\ resp.op = "selfsend" /\ resp.code = 500
    /\ resp.req.fault = "email" /\ resp.req.caller = "u2"
    /\ env.sendgrid /\ env.fromEmail
    /\ resp.pre # None /\ resp.mail = None
    /\ "u2" \notin Range(newsletters[Val(resp.req.newsletterId)].recipients)
    /\ \A i \in 1..Len(notifications) : notifications[i].user # "u2"

\* ------------------------------------------------ properties of the send steps
\* Some id of the request is the id of a stored user.
Resolvable(r) == \E u \in Range(inflight[r].userIds) : u \in DOMAIN users

\* The mailer was called once and accepted the message, which goes to the
\* address of every stored user among the ids and carries the PDF of the
\* newsletter in base64.
MailedOnce(r) ==
    /\ Len(inflight[r].mails) = 1
    /\ inflight[r].mails[1].accepted
    /\ inflight[r].mails[1].msg.to =
         {users[u].email : u \in Range(inflight[r].userIds) \cap DOMAIN users}
    /\ inflight[r].mails[1].msg.attachment
         = <<"base64", Val(Val(inflight[r].doc).pdfContent).data>>
    /\ inflight[r].mails[1].msg.type = "application/pdf"

\* C28: with the email credential set, a send request calls the mailer at
\* most once, and not at all when none of its ids is the id of a user; the
\* step that saves status 'sent' and the recipients is taken, by a request
\* with an id that resolves, only when its one message to all the addresses
\* found was accepted before that step, and the mailer is not called again
\* afterwards.
C28_EmailBeforeUpdate ==
    /\ [](\A r \in DOMAIN inflight :
             /\ env.sendgrid
             /\ Len(inflight[r].mails) <= 1
             /\ ~Resolvable(r) => inflight[r].mails = <<>>
             /\ (Resolvable(r)
                 /\ \/ inflight[r].pc = "saved"
                    \/ inflight[r].pc = "done" /\ inflight[r].code = 200)
                => MailedOnce(r))
    /\ [][\A r \in DOMAIN inflight :
             (inflight[r].pc = "mailed" /\ inflight'[r].pc = "saved")
             => /\ newsletters'[SentId].status = "sent"
                /\ inflight'[r].mails = inflight[r].mails
                /\ Resolvable(r) => MailedOnce(r)]_vars

\* A request for u1 and u2 answered 200: the newsletter is marked sent, and
\* the request made one call of the mailer, to both addresses.
C28_Witness ==
    /\ DOMAIN inflight = 1..Senders
    /\ inflight[1].pc = "done" /\ inflight[1].code = 200
    /\ inflight[1].userIds = <<"u1", "u2">>
    /\ Len(inflight[1].mails) = 1
    /\ inflight[1].mails[1].msg.to = {"e1", "e2"}
    /\ newsletters[SentId].status = "sent"
    /\ inflight[2].pc = "done" /\ inflight[2].code = 500
    /\ inflight[2].mails # <<>> /\ ~inflight[2].mails[1].accepted

\* ===================================================== the client AuthProvider
\* AuthContext.tsx.  client is a record: token and user are the provider's
\* state (an empty option is null), isLoading its loading flag, storage the
\* authToken and user entries of localStorage, syncedUser the data of the
\* self-user-profile-sync query, atMount what localStorage held when the
\* provider mounted, pending whether the sync effect has a run
\* due because one of its dependencies changed, last the step taken last,
\* called whether login or logout was called since the provider mounted, and
\* syncLogins how often the sync effect has called login since the query's
\* data or an outside call last changed what it compares.
MaxProfileChanges == 2

\* JSON.stringify(userData) and JSON.parse of a stored entry: an entry that
\* is not JSON makes JSON.parse throw.
Stringify(userData) == [json |-> TRUE, value |-> userData]

Parses(entry) == entry.json

Parse(entry) == entry.value

\* The user the auth middleware resolves a token to.
TokenUser(tokenData) == IF tokenData = "t2" THEN "u2" ELSE "u3"

\* [...(categories || [])].sort(): the order of the category names.
CategoryRank(c) == IF c = "c1" THEN 1 ELSE IF c = "c2" THEN 2 ELSE 3

RECURSIVE Sort(_)
Sort(cats) ==
    IF cats = <<>> THEN <<>>
    ELSE LET least == CHOOSE i \in 1..Len(cats) :
                          \A j \in 1..Len(cats) :
                              \/ CategoryRank(cats[i]) < CategoryRank(cats[j])
                              \/ /\ CategoryRank(cats[i]) = CategoryRank(cats[j])
                                 /\ i <= j
             rest == [k \in 1..(Len(cats) - 1) |->
                         IF k < least THEN cats[k] ELSE cats[k + 1]]
         IN <<cats[least]>> \o Sort(rest)

\* The JSON of the list as it stands.
UnsortedJson(cats) == cats

\* JSON.stringify of the sorted copy: two lists give the same string exactly
\* when their sorted copies are equal.
SortedJson(cats) == Sort(cats)

nameChanged(syncedUser, user) == syncedUser.name # user.name

categoriesChanged(syncedUser, user) ==
    SortedJson(user.categories) # SortedJson(syncedUser.categories)

\* localStorage after login's two setItem calls, and after logout's two
\* removeItem calls.
StoredLogin(userData, tokenData) ==
    [authToken |-> Some(tokenData), user |-> Some(Stringify(userData))]

NothingStored == [authToken |-> None, user |-> None]

RemovedUserOnly(storage) == [storage EXCEPT !.user = None]

RemovedBoth(storage) == [storage EXCEPT !.authToken = None, !.user = None]

\* login(userData, tokenData) as it changes the provider.
login(userData, tokenData, step, count) ==
    client' = [client EXCEPT !.storage = StoredLogin(userData, tokenData),
                             !.token = Some(tokenData),
                             !.user = Some(userData),
                             !.pending = TRUE,
                             !.last = step,
                             !.called = TRUE,
                             !.syncLogins = count]

ServerSame ==
    UNCHANGED <<env, users, categories, articles, newsletters, notifications,
                genLog, issued, resp, served, now, inflight>>

\* The effect that runs once when the provider mounts.
InitEffect ==
    LET storedToken == client.storage.authToken
        storedUser == client.storage.user
    IN
    /\ client.isLoading
    /\ client' =
         IF storedToken # None /\ storedUser # None THEN
             IF Parses(Val(storedUser)) THEN
                 [client EXCEPT !.token = storedToken,
                                !.user = Some(Parse(Val(storedUser))),
                                !.isLoading = FALSE,
                                !.pending = TRUE,
                                !.last = "init"]
             ELSE
                 \* JSON.parse throws: localStorage.clear()
                 [client EXCEPT !.storage = NothingStored,
                                !.isLoading = FALSE,
                                !.last = "init"]
         ELSE [client EXCEPT !.isLoading = FALSE, !.last = "init"]
    /\ ServerSame

\* A page calls login with the user and token the server answered.
Login(userData, tokenData) ==
    /\ ~client.isLoading
    /\ login(userData, tokenData, "login", 0)
    /\ ServerSame

Logout ==
    /\ ~client.isLoading
    /\ client' = [client EXCEPT !.storage = RemovedBoth(client.storage),
                                !.token = None,
                                !.user = None,
                                !.pending = TRUE,
                                !.last = "logout",
                                !.called = TRUE,
                                !.syncLogins = 0]
    /\ ServerSame

\* The query is enabled with a token and after loading; its function reads
\* the token from localStorage and asks GET /users/me, which answers the
\* stored user or null.  Data equal to the data held keeps the effect still.
FetchProfile ==
    LET currentToken == client.storage.authToken
        data == IF currentToken = None THEN None
                ELSE FindUser(TokenUser(Val(currentToken)))
    IN
    /\ client.token # None
    /\ ~client.isLoading
    /\ client' = [client EXCEPT !.syncedUser = data,
                                !.pending = @ \/ data # client.syncedUser,
                                !.last = "fetch",
                                !.syncLogins =
                                    IF data # client.syncedUser THEN 0 ELSE @]
    /\ ServerSame

\* The profile-sync effect, run when one of its dependencies has changed.
SyncProfile ==
    LET syncedUser == client.syncedUser
        user == client.user
    IN
    /\ client.pending
    /\ IF /\ syncedUser # None
          /\ user # None
          /\ \/ nameChanged(Val(syncedUser), Val(user))
             \/ categoriesChanged(Val(syncedUser), Val(user))
          /\ client.token # None
       THEN login(Val(syncedUser), Val(client.token), "syncLogin",
                  client.syncLogins + 1)
       ELSE client' = [client EXCEPT !.pending = FALSE, !.last = "sync"]
    /\ ServerSame

\* The signed-in users change their profile on the server.
ChangeProfile(caller, name, cats) ==
    /\ served < MaxProfileChanges
    /\ \/ UpdateMyCategories(caller, cats)
       \/ UpdateProfile(caller, Some(name), None)
    /\ served' = served + 1
    /\ UNCHANGED <<now, inflight, client>>

\* What localStorage may hold when the provider mounts: nothing, what a
\* login left, one entry alone, and a user entry that is not JSON.
StoredAtMount ==
    {NothingStored,
     StoredLogin(ManagedUsers["u3"], "t3"),
     [authToken |-> Some("t3"), user |-> None],
     [authToken |-> None, user |-> Some(Stringify(ManagedUsers["u3"]))],
     [authToken |-> Some("t3"),
      user |-> Some([json |-> FALSE, value |-> ManagedUsers["u3"]])]}

\* The profiles a page may log in with: the stored user, and the stored
\* user as an older answer showed it.
LoginProfiles ==
    {ManagedUsers["u3"],
     [ManagedUsers["u3"] EXCEPT !.categories = <<"c2", "c1">>],
     ManagedUsers["u2"]}

ProfileCategories == {<<"c1">>, <<"c1", "c2">>, <<"c2", "c1">>, <<"c1", "c1">>}

InitAuth ==
    /\ env = FullEnv
    /\ users = ManagedUsers
    /\ categories = <<>>
    /\ articles = <<>>
    /\ issued = [users |-> 3, categories |-> 0, articles |-> 0]
    /\ newsletters = <<>>
    /\ notifications = <<>>
    /\ genLog = <<>>
    /\ resp = Response("init", <<>>, None, 0, None, None)
    /\ served = 0
    /\ now = 0
    /\ inflight = <<>>
    /\ \E stored \in StoredAtMount :
           client = [token |-> None, user |-> None, isLoading |-> TRUE,
                     storage |-> stored, atMount |-> stored,
                     syncedUser |-> None,
                     pending |-> FALSE, last |-> "mount", called |-> FALSE,
                     syncLogins |-> 0]

NextAuth ==
    \/ InitEffect
    \/ \E userData \in LoginProfiles, tokenData \in {"t2", "t3"} :
           Login(userData, tokenData)
    \/ Logout
    \/ FetchProfile
    \/ SyncProfile
    \/ \E caller \in {"u2", "u3"}, name \in {"m"}, cats \in ProfileCategories :
           ChangeProfile(caller, name, cats)

SpecAuth == InitAuth /\ [][NextAuth]_vars

\* The provider's state and localStorage agree: the token and the user are
\* both set or both null, and each entry is stored exactly when its state is
\* set, holding the token and the user's JSON.
StateMatchesStorage ==
    /\ (client.token = None) <=> (client.user = None)
    /\ client.storage.authToken = client.token
    /\ client.storage.user =
           IF client.user = None THEN None
           ELSE Some(Stringify(Val(client.user)))

\* localStorage as the provider leaves it: both entries or neither.
BothOrNeither(storage) == (storage.authToken = None) <=> (storage.user = None)

\* C29: after the provider's first effect and any number of calls of login
\* and logout, the token and the user are both set or both null and the
\* authToken and user entries of localStorage are there exactly when they are
\* set; and a call of logout leaves both null and both entries removed.  A
\* provider that found one entry without the other at its mount is held to
\* this from its first call of login or logout on.
C29_TokenAndUserTogether ==
    (/\ client # <<>>
     /\ ~client.isLoading
     /\ client.called \/ BothOrNeither(client.atMount)) =>
        /\ StateMatchesStorage
        /\ client.last = "logout" =>
               /\ client.token = None
               /\ client.user = None
               /\ client.storage = [authToken |-> None, user |-> None]

\* logout was called on a provider that had been logged in and had fetched
\* the profile: both are null and both entries are gone.
C29_Witness ==
    /\ client # <<>>
    /\ client.last = "logout"
    /\ client.syncedUser # None
    /\ client.storage = [authToken |-> None, user |-> None]

\* How often a category stands in a list, and two lists holding the same
\* categories as often, in any order.
Count(c, cats) == Cardinality({i \in 1..Len(cats) : cats[i] = c})

SameCategories(a, b) ==
    \A c \in Range(a) \cup Range(b) : Count(c, a) = Count(c, b)

\* A run of the sync effect.
SyncRuns ==
    /\ client.pending
    /\ client' # client
    /\ client'.last \in {"sync", "syncLogin"}

SyncCompares ==
    client.syncedUser # None /\ client.user # None /\ client.token # None

\* C30: a run of the sync effect that has the query's data, a user and a
\* token calls login, with the server's profile and the token held, exactly
\* when the server's name differs from the local one or the two category
\* lists do not hold the same categories equally often (their order is
\* ignored); after it the local profile shows no difference to the server's,
\* and the effect calls login no second time for the same data.
C30_SyncReachesFixedPoint ==
    /\ [](client.syncLogins <= 1)
    /\ [][SyncRuns =>
            /\ ~SyncCompares => client'.last = "sync"
            /\ SyncCompares =>
                 LET server == Val(client.syncedUser)
                     local == Val(client.user)
                 IN
                 /\ client'.last = "syncLogin" <=>
                        \/ server.name # local.name
                        \/ ~SameCategories(server.categories, local.categories)
                 /\ client'.last = "syncLogin" =>
                        /\ client'.user = client.syncedUser
                        /\ client'.token = client.token
                        /\ client'.storage =
                               [authToken |-> client.token,
                                user |-> Some(Stringify(server))]
                        /\ client'.syncedUser = client.syncedUser
            /\ client'.last = "sync" => /\ client'.user = client.user
                                        /\ client'.storage = client.storage
                                        /\ ~client'.pending]_vars

\* The effect has logged in with a server profile whose categories the local
\* profile held in another order and once less, and has run again without
\* a further login.
C30_Witness ==
    /\ client # <<>>
    /\ client.last = "sync"
    /\ client.syncLogins = 1
    /\ client.user = client.syncedUser
    /\ client.user # None
    /\ Val(client.user).categories = <<"c1", "c1">>

\* C30 as the specification words it, comparing the categories as sets: the
\* effect would call login exactly when the name or the set of categories
\* differs.
C30_AsStated ==
    [][(SyncRuns /\ SyncCompares) =>
          LET server == Val(client.syncedUser)
              local == Val(client.user)
          IN
          client'.last = "syncLogin" <=>
              \/ server.name # local.name
              \/ Range(server.categories) # Range(local.categories)]_vars

====
